---- MODULE Spec2Model ----
(***************************************************************************)
(* Model of the DROP binary datum codec (DatumBinaryFormat) of             *)
(* src/src/services/PixelArt/PixelArtPresets.ts.                           *)
(*                                                                         *)
(* A byte buffer (Uint8Array) is a sequence of 0..255; byte offset k of    *)
(* the source is element k+1 of the sequence.  A JavaScript number that    *)
(* is stored as a float is a record (see Num below), a uint32 read from a  *)
(* buffer is a pair of 16-bit halves, a JavaScript string is the sequence  *)
(* of its UTF-16 code units.                                               *)
(***************************************************************************)
EXTENDS Integers, Sequences, FiniteSets, TLC

VARIABLES
  datum,    \* the in-memory dataset the caller holds (input of datumToBinary)
  data,     \* the byte buffer the caller holds (input of binaryToDatum)
  origin,   \* where data comes from: "none", "encoder" (untouched output), "file"
  edits,    \* number of changes the file collaborator made to data
  encodes,  \* number of datumToBinary calls made on datum
  res,      \* outcome of the last codec call
  heap,     \* the ArrayBuffers of several call sites, by identity
  store,    \* the dataset objects of several call sites, by identity
  held,     \* per call site, what its last codec call returned
  last,     \* the last codec call made by a call site: site, op and argument
  touched,  \* the objects their holders changed after they were returned
  calls,    \* number of codec calls made by the call sites
  changes,  \* number of changes the call sites made to their objects
  now,      \* the clock that new Date() reads: every call takes its time
  supported,           \* 'serial' in navigator
  connections,         \* DeviceService.connections
  serialPorts,         \* the keys of DeviceService.serialPorts
  serialWriters,       \* the keys of DeviceService.serialWriters
  serialReaders,       \* the keys of DeviceService.serialReaders
  readLoopActive,      \* DeviceService.readLoopActive
  textResponseBuffer,  \* DeviceService.textResponseBuffer
  parameters,          \* DeviceService.parameters
  emitted,             \* how often the listeners were called, by event
  connect,             \* the connectSerial call in progress or just ended
  closing,             \* per connection, where its disconnect call waits
  loop,                \* per connection, the state of its read loop
  cancelled,           \* the connections whose reader was cancelled
  wire,                \* per connection, the bytes the device has yet to send
  received,            \* per connection, the text its read loop decoded
  handed,              \* per connection, the lines given to parseParameterResponse
  sent,                \* number of messages and commands given to a device
  nextId,              \* the next connection id
  attempts,            \* number of connectSerial calls
  inputs,              \* number of updateParameter calls and binary messages
  update               \* the last updateParameter call

codecVars == <<datum, data, origin, edits, encodes, res>>
siteVars == <<heap, store, held, last, touched, calls, changes, now>>
deviceVars ==
  <<supported, connections, serialPorts, serialWriters, serialReaders, readLoopActive,
    textResponseBuffer, parameters, emitted, connect, closing, loop, cancelled, wire,
    received, handed, sent, nextId, attempts, inputs, update>>
vars == <<datum, data, origin, edits, encodes, res,
          heap, store, held, last, touched, calls, changes, now,
          supported, connections, serialPorts, serialWriters, serialReaders, readLoopActive,
          textResponseBuffer, parameters, emitted, connect, closing, loop, cancelled, wire,
          received, handed, sent, nextId, attempts, inputs, update>>

\* the variables a codec caller, the call sites and the device service leave
\* alone
notCodec == <<siteVars, deviceVars>>
notSites == <<codecVars, deviceVars>>
notDevice == <<codecVars, siteVars>>

\* no call site has anything
NoSites ==
  /\ heap = << >> /\ store = << >> /\ held = << >> /\ last = << >>
  /\ touched = {} /\ calls = 0 /\ changes = 0 /\ now = 0

\* the outcome of a call: which call it was, whether it returned (ok) or
\* threw (error), and the value it returned
Result(op, r) == [op |-> op, ok |-> r.ok, error |-> r.error, value |-> r.value]

(***************************************************************************)
(* Program constants                                                       *)
(***************************************************************************)
DATUM_MAGIC == <<68, 65, 84, 77>>      \* 0x44 0x41 0x54 0x4D, "DATM"
DATUM_VERSION == 1
DATUM_HEADER_SIZE == 203
BANDS_PER_FRAME == 20                  \* the literal 20 of the frame loops
NAME_FIELD_SIZE == 20                  \* the literal 20 of the name loops
NAME_MAX_CHARS == 19                   \* substring(0, 19)
RESERVED_SIZE == 65

(***************************************************************************)
(* Bytes and DataView integer access                                       *)
(***************************************************************************)
Byte == 0..255

Fill(b, n) == [i \in 1..n |-> b]

\* the bytes data[off .. off+size-1] (0-based offsets)
Slice(bytes, off, size) == SubSeq(bytes, off + 1, off + size)

\* a DataView read of size bytes at off throws RangeError when it leaves the view
InBounds(bytes, off, size) == off + size <= Len(bytes)

\* ToUint32 of a JavaScript integer: the value modulo 2^32, as 16-bit halves
ToUint32(v) == [hi |-> (v \div 65536) % 65536, lo |-> v % 65536]

\* DataView.setUint32(offset, v, true): the four little-endian bytes
setUint32(v) ==
  LET u == ToUint32(v)
  IN  <<u.lo % 256, u.lo \div 256, u.hi % 256, u.hi \div 256>>

\* DataView.getUint32(offset, true)
getUint32(bytes, off) ==
  [hi |-> bytes[off + 3] + 256 * bytes[off + 4],
   lo |-> bytes[off + 1] + 256 * bytes[off + 2]]

\* a < b on uint32 values
U32Less(a, b) == a.hi < b.hi \/ (a.hi = b.hi /\ a.lo < b.lo)

\* the number a uint32 holds (used only for values below 2^31)
U32Value(u) == u.hi * 65536 + u.lo

(***************************************************************************)
(* JavaScript numbers and their IEEE-754 encodings.                        *)
(* A finite non-zero double is (-1)^s * (hi * 2^29 + lo) * 2^(e - 52) with *)
(* 2^23 <= hi < 2^24 (the leading 24 significant bits) and 0 <= lo < 2^29  *)
(* (the remaining 29 bits): only normal doubles are used as inputs.        *)
(***************************************************************************)
Num(k, s, e, hi, lo) == [k |-> k, s |-> s, e |-> e, hi |-> hi, lo |-> lo]
NaN == Num("nan", 0, 0, 0, 0)
Infinity(s) == Num("inf", s, 0, 0, 0)
Zero(s) == Num("zero", s, 0, 0, 0)
Finite(s, e, hi, lo) == Num("fin", s, e, hi, lo)
\* the value undefined where a number is expected (a missing entry of bands)
undefined == Num("undefined", 0, 0, 0, 0)

\* a value read from a property that holds an integer or does not exist, and
\* the result of arithmetic on it: <<"number", n>>, <<"undefined">>, <<"NaN">>
Property(obj, key) ==
  IF key \in DOMAIN obj THEN <<"number", obj[key]>> ELSE <<"undefined">>
\* v - n: undefined becomes NaN under ToNumber, and NaN - n is NaN
Minus(v, n) == IF v[1] = "number" THEN <<"number", v[2] - n>> ELSE <<"NaN">>
\* the integer that ToNumber followed by ToUint32 starts from: NaN gives +0
ToInteger(v) == IF v[1] = "number" THEN v[2] ELSE 0

\* the 32 bits of a float32 as sign, exponent field and fraction -> LE bytes
F32Bytes(s, ef, fr) ==
  <<fr % 256, (fr \div 256) % 256, (ef % 2) * 128 + fr \div 65536, s * 128 + ef \div 2>>

\* exponent field and fraction (as ef * 2^23 + fr) of the float32 nearest to a
\* finite double, round to nearest, ties to even; 255 * 2^23 is Infinity
F32Magnitude(x) ==
  IF x.e > 127 THEN 255 * 2^23
  ELSE IF x.e >= -126 THEN
    LET up == x.lo > 2^28 \/ (x.lo = 2^28 /\ x.hi % 2 = 1)
        m  == x.hi + (IF up THEN 1 ELSE 0)
    IN  (x.e + 127) * 2^23 + (m - 2^23)     \* a carry to 2^24 bumps the exponent
  ELSE
    LET shift == -126 - x.e
    IN  IF shift > 24 THEN 0
        ELSE LET q    == x.hi \div 2^shift
                 r    == x.hi % 2^shift
                 half == 2^(shift - 1)
                 up   == r > half \/ (r = half /\ (x.lo > 0 \/ q % 2 = 1))
             IN  q + (IF up THEN 1 ELSE 0)

\* variant: undefined is stored as 0.0
setFloat32_UndefinedAsZero(x) ==
  CASE x.k = "undefined" -> F32Bytes(0, 0, 0)
    [] x.k = "nan"  -> F32Bytes(0, 255, 2^22)
    [] x.k = "inf"  -> F32Bytes(x.s, 255, 0)
    [] x.k = "zero" -> F32Bytes(x.s, 0, 0)
    [] x.k = "fin"  -> LET m == F32Magnitude(x)
                       IN  F32Bytes(x.s, m \div 2^23, m % 2^23)

\* DataView.setFloat32(offset, x, true): the four little-endian bytes; the
\* argument goes through ToNumber, which makes NaN of undefined
setFloat32(x) ==
  CASE x.k = "undefined" -> F32Bytes(0, 255, 2^22)
    [] x.k = "nan"  -> F32Bytes(0, 255, 2^22)
    [] x.k = "inf"  -> F32Bytes(x.s, 255, 0)
    [] x.k = "zero" -> F32Bytes(x.s, 0, 0)
    [] x.k = "fin"  -> LET m == F32Magnitude(x)
                       IN  F32Bytes(x.s, m \div 2^23, m % 2^23)

\* position of the leading one bit of n > 0
RECURSIVE Log2(_)
Log2(n) == IF n < 2 THEN 0 ELSE 1 + Log2(n \div 2)

\* DataView.getFloat32(offset, true)
getFloat32(bytes, off) ==
  LET b0 == bytes[off + 1]
      b1 == bytes[off + 2]
      b2 == bytes[off + 3]
      b3 == bytes[off + 4]
      s  == b3 \div 128
      ef == (b3 % 128) * 2 + b2 \div 128
      fr == (b2 % 128) * 65536 + b1 * 256 + b0
  IN  IF ef = 255 THEN (IF fr = 0 THEN Infinity(s) ELSE NaN)
      ELSE IF ef = 0 THEN
        (IF fr = 0 THEN Zero(s)
         ELSE LET p == Log2(fr) IN Finite(s, p - 149, fr * 2^(23 - p), 0))
      ELSE Finite(s, ef - 127, 2^23 + fr, 0)

\* DataView.setFloat64(offset, x, true) for the doubles the encoder writes
setFloat64(x) ==
  CASE x.k = "zero" -> <<0, 0, 0, 0, 0, 0, 0, x.s * 128>>
    [] x.k = "fin"  ->
         LET ef  == x.e + 1023
             fhi == x.hi - 2^23
         IN  <<x.lo % 256, (x.lo \div 256) % 256, (x.lo \div 65536) % 256,
               (fhi % 8) * 32 + x.lo \div 2^24,
               (fhi \div 8) % 256, (fhi \div 2^11) % 256,
               (ef % 16) * 16 + fhi \div 2^19,
               x.s * 128 + ef \div 16>>

(***************************************************************************)
(* JavaScript strings (sequences of UTF-16 code units), TextEncoder and    *)
(* TextDecoder                                                             *)
(***************************************************************************)
IsHighSurrogate(u) == u >= 55296 /\ u <= 56319      \* D800..DBFF
IsLowSurrogate(u) == u >= 56320 /\ u <= 57343       \* DC00..DFFF
REPLACEMENT == <<65533>>                            \* U+FFFD

\* String.prototype.substring(0, n)
substring(str, n) == SubSeq(str, 1, IF Len(str) < n THEN Len(str) ELSE n)

\* the UTF-8 bytes of one code point
Utf8Bytes(cp) ==
  IF cp < 128 THEN <<cp>>
  ELSE IF cp < 2048 THEN <<192 + cp \div 64, 128 + (cp % 64)>>
  ELSE IF cp < 65536 THEN <<224 + cp \div 4096, 128 + ((cp \div 64) % 64), 128 + (cp % 64)>>
  ELSE <<240 + cp \div 262144, 128 + ((cp \div 4096) % 64),
         128 + ((cp \div 64) % 64), 128 + (cp % 64)>>

\* new TextEncoder().encode(str) from code unit i on: a surrogate pair is one
\* code point, a lone surrogate is encoded as U+FFFD
RECURSIVE TextEncode(_, _)
TextEncode(str, i) ==
  IF i > Len(str) THEN << >>
  ELSE LET u == str[i]
       IN  IF IsHighSurrogate(u) /\ i < Len(str) /\ IsLowSurrogate(str[i + 1])
             THEN Utf8Bytes(65536 + (u - 55296) * 1024 + (str[i + 1] - 56320))
                    \o TextEncode(str, i + 2)
           ELSE IF IsHighSurrogate(u) \/ IsLowSurrogate(u)
             THEN Utf8Bytes(65533) \o TextEncode(str, i + 1)
           ELSE Utf8Bytes(u) \o TextEncode(str, i + 1)

\* the UTF-16 code units of a decoded code point
CodeUnits(cp) ==
  IF cp < 65536 THEN <<cp>>
  ELSE <<55296 + (cp - 65536) \div 1024, 56320 + ((cp - 65536) % 1024)>>

\* the UTF-8 decoder of TextDecoder (replacement mode), from byte i on, with
\* the decoder state: code point, bytes still needed, lower and upper boundary
RECURSIVE Utf8Decode(_, _, _, _, _, _)
Utf8Decode(bytes, i, cp, needed, lower, upper) ==
  IF i > Len(bytes) THEN (IF needed # 0 THEN REPLACEMENT ELSE << >>)
  ELSE LET b == bytes[i]
       IN  IF needed = 0 THEN
             (IF b <= 127 THEN <<b>> \o Utf8Decode(bytes, i + 1, 0, 0, 128, 191)
              ELSE IF b >= 194 /\ b <= 223
                THEN Utf8Decode(bytes, i + 1, b % 32, 1, 128, 191)
              ELSE IF b >= 224 /\ b <= 239
                THEN Utf8Decode(bytes, i + 1, b % 16, 2,
                                IF b = 224 THEN 160 ELSE 128,
                                IF b = 237 THEN 159 ELSE 191)
              ELSE IF b >= 240 /\ b <= 244
                THEN Utf8Decode(bytes, i + 1, b % 8, 3,
                                IF b = 240 THEN 144 ELSE 128,
                                IF b = 244 THEN 143 ELSE 191)
              ELSE REPLACEMENT \o Utf8Decode(bytes, i + 1, 0, 0, 128, 191))
           ELSE IF b < lower \/ b > upper
             THEN REPLACEMENT \o Utf8Decode(bytes, i, 0, 0, 128, 191)  \* b is read again
           ELSE IF needed = 1
             THEN CodeUnits(cp * 64 + (b % 64)) \o Utf8Decode(bytes, i + 1, 0, 0, 128, 191)
           ELSE Utf8Decode(bytes, i + 1, cp * 64 + (b % 64), needed - 1, 128, 191)

\* new TextDecoder().decode(bytes): a leading byte order mark EF BB BF is dropped
TextDecode(bytes) ==
  IF Len(bytes) >= 3 /\ SubSeq(bytes, 1, 3) = <<239, 187, 191>>
    THEN Utf8Decode(bytes, 4, 0, 0, 128, 191)
    ELSE Utf8Decode(bytes, 1, 0, 0, 128, 191)

\* str.replace(/\0+$/, ''): the string without its trailing NUL characters
RECURSIVE StripTrailingNul(_)
StripTrailingNul(str) ==
  IF Len(str) > 0 /\ str[Len(str)] = 0
    THEN StripTrailingNul(SubSeq(str, 1, Len(str) - 1))
    ELSE str

DEFAULT_NAME == <<68, 82, 79, 80, 32, 69, 120, 112, 111, 114, 116>>   \* 'DROP Export'

(***************************************************************************)
(* What a codec call throws                                                *)
(***************************************************************************)
RANGE_ERROR    == "RangeError: Offset is outside the bounds of the DataView"
TYPE_ERROR     == "TypeError: Cannot read properties of undefined"
ERR_MAGIC      == "Invalid datum file: magic number mismatch"
ERR_VERSION    == "Unsupported datum file version"
ERR_HEADERSIZE == "Invalid header size"
ERR_FRAMECOUNT == "Invalid frame count: must be > 0"
ERR_FRAMERANGE == "Invalid frame range: endFrame < startFrame"
ERR_FILESIZE   == "Invalid file size"
NO_ERROR       == "none"

(***************************************************************************)
(* DatumBinaryFormat: encoding                                             *)
(***************************************************************************)
\* variant: startFrame is taken from the first frame's timestamp
createHeader_StartFromTimestamp(d) ==
  [magic            |-> DATUM_MAGIC,
   version          |-> DATUM_VERSION,
   headerSize       |-> DATUM_HEADER_SIZE,
   name             |-> IF "name" \in DOMAIN d /\ d.name # << >> THEN d.name ELSE DEFAULT_NAME,
   frames           |-> Property(d, "frameCount"),
   startFrame       |-> IF d.frames = << >> THEN 0 ELSE d.frames[1].timestamp,
   endFrame         |-> Minus(Property(d, "frameCount"), 1),
   baseHz           |-> Finite(0, 8, 14417920, 0),
   phaseMultipliers |-> [i \in 1..4 |-> Finite(0, 0, 2^23, 0)],
   offsets          |-> [i \in 1..4 |-> Zero(0)],
   startPoint       |-> Zero(0),
   endPoint         |-> Finite(0, 0, 2^23, 0),
   warpAmount       |-> Zero(0),
   warpType         |-> 0,
   selectedLUT      |-> 0,
   reserved         |-> Fill(0, RESERVED_SIZE)]

\* createHeader(datum); `datum.name || 'DROP Export'` takes the default for ''
\* and for a missing name; frames and endFrame are what datum.frameCount and
\* datum.frameCount - 1 evaluate to, a number, undefined or NaN
createHeader(d) ==
  [magic            |-> DATUM_MAGIC,
   version          |-> DATUM_VERSION,
   headerSize       |-> DATUM_HEADER_SIZE,
   name             |-> IF "name" \in DOMAIN d /\ d.name # << >> THEN d.name ELSE DEFAULT_NAME,
   frames           |-> Property(d, "frameCount"),
   startFrame       |-> 0,
   endFrame         |-> Minus(Property(d, "frameCount"), 1),
   baseHz           |-> Finite(0, 8, 14417920, 0),                 \* 440.0
   phaseMultipliers |-> [i \in 1..4 |-> Finite(0, 0, 2^23, 0)],    \* 1.0
   offsets          |-> [i \in 1..4 |-> Zero(0)],
   startPoint       |-> Zero(0),
   endPoint         |-> Finite(0, 0, 2^23, 0),                     \* 1.0
   warpAmount       |-> Zero(0),
   warpType         |-> 0,
   selectedLUT      |-> 0,
   reserved         |-> Fill(0, RESERVED_SIZE)]

\* the name field written by writeHeader: the UTF-8 bytes of the first 19 code
\* units, cut to 20 bytes and padded with 0 to 20 bytes
NameField(name) ==
  LET nameBytes == TextEncode(substring(name, NAME_MAX_CHARS), 1)
  IN  [i \in 1..NAME_FIELD_SIZE |-> IF i - 1 < Len(nameBytes) THEN nameBytes[i] ELSE 0]

\* variant: startFrame and endFrame are written before frames
writeHeader_RangeBeforeFrames(h) ==
  h.magic
    \o setUint32(h.version)
    \o setUint32(h.headerSize)
    \o NameField(h.name)
    \o setUint32(h.startFrame)
    \o setUint32(ToInteger(h.endFrame))
    \o setUint32(ToInteger(h.frames))
    \o setFloat64(h.baseHz)
    \o setFloat64(h.phaseMultipliers[1]) \o setFloat64(h.phaseMultipliers[2])
    \o setFloat64(h.phaseMultipliers[3]) \o setFloat64(h.phaseMultipliers[4])
    \o setFloat64(h.offsets[1]) \o setFloat64(h.offsets[2])
    \o setFloat64(h.offsets[3]) \o setFloat64(h.offsets[4])
    \o setFloat64(h.startPoint)
    \o setFloat64(h.endPoint)
    \o setFloat32(h.warpAmount)
    \o <<h.warpType % 256>>
    \o <<h.selectedLUT % 256>>
    \o h.reserved

\* writeHeader(view, header): the bytes written from offset 0 on, field by
\* field, each at the running offset; setUint32 takes frames and endFrame
\* through ToNumber and ToUint32
writeHeader(h) ==
  h.magic
    \o setUint32(h.version)
    \o setUint32(h.headerSize)
    \o NameField(h.name)
    \o setUint32(ToInteger(h.frames))
    \o setUint32(h.startFrame)
    \o setUint32(ToInteger(h.endFrame))
    \o setFloat64(h.baseHz)
    \o setFloat64(h.phaseMultipliers[1]) \o setFloat64(h.phaseMultipliers[2])
    \o setFloat64(h.phaseMultipliers[3]) \o setFloat64(h.phaseMultipliers[4])
    \o setFloat64(h.offsets[1]) \o setFloat64(h.offsets[2])
    \o setFloat64(h.offsets[3]) \o setFloat64(h.offsets[4])
    \o setFloat64(h.startPoint)
    \o setFloat64(h.endPoint)
    \o setFloat32(h.warpAmount)
    \o <<h.warpType % 256>>
    \o <<h.selectedLUT % 256>>
    \o h.reserved

\* variant: a long frame keeps its last 20 bands (slice(-20) for slice(0, 20))
PadBands_KeepTail(bands) ==
  [i \in 1..BANDS_PER_FRAME |->
     IF Len(bands) > BANDS_PER_FRAME THEN bands[Len(bands) - BANDS_PER_FRAME + i]
     ELSE IF i <= Len(bands) THEN bands[i] ELSE Zero(0)]

\* frame.bands.slice(0, 20) followed by push(0.0) while shorter than 20
PadBands(bands) ==
  [i \in 1..BANDS_PER_FRAME |-> IF i <= Len(bands) THEN bands[i] ELSE Zero(0)]

\* the 80 bytes of one frame
RECURSIVE EncodeBands(_, _)
EncodeBands(bands, i) ==
  IF i > BANDS_PER_FRAME THEN << >>
  ELSE setFloat32(bands[i]) \o EncodeBands(bands, i + 1)

\* variant: a frame without bands is skipped instead of written as zeros
RECURSIVE encodeSpectralData_SkipEmpty(_)
encodeSpectralData_SkipEmpty(frames) ==
  IF frames = << >> THEN << >>
  ELSE IF Head(frames).bands = << >> THEN encodeSpectralData_SkipEmpty(Tail(frames))
  ELSE EncodeBands(PadBands(Head(frames).bands), 1)
         \o encodeSpectralData_SkipEmpty(Tail(frames))

\* variant: every band of a frame is written, a long frame is not cut to 20
RECURSIVE encodeSpectralData_AllBands(_)
encodeSpectralData_AllBands(frames) ==
  IF frames = << >> THEN << >>
  ELSE LET bands == Head(frames).bands
           n     == IF Len(bands) > BANDS_PER_FRAME THEN Len(bands) ELSE BANDS_PER_FRAME
       IN  [k \in 1..(4 * n) |->
              setFloat32(IF (k - 1) \div 4 < Len(bands)
                           THEN bands[((k - 1) \div 4) + 1] ELSE Zero(0))[((k - 1) % 4) + 1]]
             \o encodeSpectralData_AllBands(Tail(frames))

\* encodeSpectralData(frames): frames.length * 20 * 4 bytes
RECURSIVE encodeSpectralData(_)
encodeSpectralData(frames) ==
  IF frames = << >> THEN << >>
  ELSE EncodeBands(PadBands(Head(frames).bands), 1) \o encodeSpectralData(Tail(frames))

\* new ArrayBuffer(frames.length * 20 * 4): the buffer encodeSpectralData writes to
SpectralBufferSize(frames) == Len(frames) * BANDS_PER_FRAME * 4

\* variant: the buffer is sized from frameCount, the frames that exist are copied
datumToBinary_SizedByFrameCount(d) ==
  LET header       == writeHeader(createHeader(d))
      spectralData == encodeSpectralData(d.frames)
      totalSize    == DATUM_HEADER_SIZE + d.frameCount * BANDS_PER_FRAME * 4
  IN  [i \in 1..totalSize |->
         IF i > DATUM_HEADER_SIZE
           THEN (IF i - DATUM_HEADER_SIZE <= Len(spectralData)
                   THEN spectralData[i - DATUM_HEADER_SIZE] ELSE 0)
         ELSE IF i <= Len(header) THEN header[i]
         ELSE 0]

\* datumToBinary(datum): a zero-filled buffer of 203 + payload bytes, the header
\* written from offset 0, the payload copied to offset 203
datumToBinary(d) ==
  LET header       == writeHeader(createHeader(d))
      spectralData == encodeSpectralData(d.frames)
      totalSize    == DATUM_HEADER_SIZE + Len(spectralData)
  IN  [i \in 1..totalSize |->
         IF i > DATUM_HEADER_SIZE THEN spectralData[i - DATUM_HEADER_SIZE]
         ELSE IF i <= Len(header) THEN header[i]
         ELSE 0]

\* the error a call datumToBinary(datum) throws, or NO_ERROR: frame.bands.slice
\* on a frame without bands throws TypeError, a DataView write past its buffer
\* and a TypedArray.set that does not fit throw RangeError
datumToBinaryThrown(d) ==
  LET header       == writeHeader(createHeader(d))
      spectralData == encodeSpectralData(d.frames)
      totalSize    == Len(datumToBinary(d))
  IN  IF \E f \in 1..Len(d.frames) : "bands" \notin DOMAIN d.frames[f] THEN TYPE_ERROR
      ELSE IF Len(spectralData) > SpectralBufferSize(d.frames) THEN RANGE_ERROR
      ELSE IF Len(header) > totalSize THEN RANGE_ERROR
      ELSE IF DATUM_HEADER_SIZE + Len(spectralData) > totalSize THEN RANGE_ERROR
      ELSE NO_ERROR

\* variant: the frames are taken off the caller's list as they are written
\* (frames.shift() for the for..of)
framesAfterEncode_Shifted(frames) == << >>

\* variant: the bands are padded in the frame itself (frame.bands.push(0.0)
\* without the slice)
framesAfterEncode_PaddedInPlace(frames) ==
  [f \in 1..Len(frames) |->
     [frames[f] EXCEPT !.bands = IF Len(@) < BANDS_PER_FRAME THEN PadBands(@) ELSE @]]

\* the caller's frames after datumToBinary: the loop reads them and pads a
\* slice(0, 20) copy of the bands, so they are as before
framesAfterEncode(frames) == frames

(***************************************************************************)
(* DatumBinaryFormat: decoding                                             *)
(***************************************************************************)
\* the reads of readHeader, in order: <<offset, size>> of every DataView access group
HeaderReads ==
  << <<0, 4>>, <<4, 4>>, <<8, 4>>, <<12, NAME_FIELD_SIZE>>, <<32, 4>>, <<36, 4>>,
     <<40, 4>>, <<44, 8>>, <<52, 32>>, <<84, 32>>, <<116, 8>>, <<124, 8>>,
     <<132, 4>>, <<136, 1>>, <<137, 1>>, <<138, RESERVED_SIZE>> >>

\* readHeader(view): a read that leaves the view throws RangeError; the float
\* fields, which nothing examines, are kept as their IEEE-754 bytes
readHeader(bytes) ==
  IF \E k \in 1..Len(HeaderReads) : ~InBounds(bytes, HeaderReads[k][1], HeaderReads[k][2])
    THEN [thrown |-> RANGE_ERROR]
    ELSE [thrown           |-> NO_ERROR,
          magic            |-> Slice(bytes, 0, 4),
          version          |-> getUint32(bytes, 4),
          headerSize       |-> getUint32(bytes, 8),
          name             |-> StripTrailingNul(TextDecode(Slice(bytes, 12, NAME_FIELD_SIZE))),
          frames           |-> getUint32(bytes, 32),
          startFrame       |-> getUint32(bytes, 36),
          endFrame         |-> getUint32(bytes, 40),
          baseHz           |-> Slice(bytes, 44, 8),
          phaseMultipliers |-> Slice(bytes, 52, 32),
          offsets          |-> Slice(bytes, 84, 32),
          startPoint       |-> Slice(bytes, 116, 8),
          endPoint         |-> Slice(bytes, 124, 8),
          warpAmount       |-> getFloat32(bytes, 132),
          warpType         |-> bytes[137],
          selectedLUT      |-> bytes[138],
          reserved         |-> Slice(bytes, 138, RESERVED_SIZE)]

\* variant: versions above DATUM_VERSION are let through (a < for the !==)
VersionUnsupported_OlderOnly(h) == U32Less(h.version, ToUint32(DATUM_VERSION))
\* variant: the frame count check is missing
FrameCountInvalid_Never(h) == FALSE
\* variant: only a file shorter than expected is rejected (a < for the !==)
SizeMismatch_TruncationOnly(h, fileSize) ==
  LET payload  == fileSize - DATUM_HEADER_SIZE
      perFrame == BANDS_PER_FRAME * 4
  IN  ~(payload >= 0 /\ h.frames.hi = 0 /\ h.frames.lo <= payload \div perFrame)

\* the six checks of validateHeader, each TRUE when its error is thrown
MagicMismatch(h) == h.magic # DATUM_MAGIC
VersionUnsupported(h) == h.version # ToUint32(DATUM_VERSION)
HeaderSizeInvalid(h) == h.headerSize # ToUint32(DATUM_HEADER_SIZE)
FrameCountInvalid(h) == h.frames = ToUint32(0)           \* a uint32 is <= 0 only as 0
FrameRangeInvalid(h) == U32Less(h.endFrame, h.startFrame)
\* fileSize !== DATUM_HEADER_SIZE + header.frames * 20 * 4, on exact numbers
SizeMismatch(h, fileSize) ==
  LET payload  == fileSize - DATUM_HEADER_SIZE
      perFrame == BANDS_PER_FRAME * 4
  IN  ~(payload >= 0 /\ payload % perFrame = 0 /\ h.frames = ToUint32(payload \div perFrame))

\* variant: the version is checked before the magic number
validateHeader_VersionFirst(h, fileSize) ==
  IF VersionUnsupported(h) THEN ERR_VERSION
  ELSE IF MagicMismatch(h) THEN ERR_MAGIC
  ELSE IF HeaderSizeInvalid(h) THEN ERR_HEADERSIZE
  ELSE IF FrameCountInvalid(h) THEN ERR_FRAMECOUNT
  ELSE IF FrameRangeInvalid(h) THEN ERR_FRAMERANGE
  ELSE IF SizeMismatch(h, fileSize) THEN ERR_FILESIZE
  ELSE NO_ERROR

\* validateHeader(header, fileSize): the error thrown, or NO_ERROR
validateHeader(h, fileSize) ==
  IF MagicMismatch(h) THEN ERR_MAGIC
  ELSE IF VersionUnsupported(h) THEN ERR_VERSION
  ELSE IF HeaderSizeInvalid(h) THEN ERR_HEADERSIZE
  ELSE IF FrameCountInvalid(h) THEN ERR_FRAMECOUNT
  ELSE IF FrameRangeInvalid(h) THEN ERR_FRAMERANGE
  ELSE IF SizeMismatch(h, fileSize) THEN ERR_FILESIZE
  ELSE NO_ERROR

\* variant: the bands of a frame are read from its last slot down
DecodeFrame_Reversed(payload, f) ==
  [bands     |-> [i \in 1..BANDS_PER_FRAME |->
                    getFloat32(payload, (f * BANDS_PER_FRAME + (BANDS_PER_FRAME - i)) * 4)],
   timestamp |-> f,
   metadata  |-> << >>]

\* variant: timestamps count from 1
DecodeFrame_TimestampFromOne(payload, f) ==
  [bands     |-> [i \in 1..BANDS_PER_FRAME |->
                    getFloat32(payload, (f * BANDS_PER_FRAME + (i - 1)) * 4)],
   timestamp |-> f + 1,
   metadata  |-> << >>]

\* one decoded frame: 20 bands read at the running offset
DecodeFrame(payload, f) ==
  [bands     |-> [i \in 1..BANDS_PER_FRAME |->
                    getFloat32(payload, (f * BANDS_PER_FRAME + (i - 1)) * 4)],
   timestamp |-> f,
   metadata  |-> << >>]

\* decodeSpectralData(data, frameCount)
decodeSpectralData(payload, frameCount) ==
  IF ~InBounds(payload, 0, frameCount * BANDS_PER_FRAME * 4)
    THEN [thrown |-> RANGE_ERROR, frames |-> << >>]
    ELSE [thrown |-> NO_ERROR,
          frames |-> [k \in 1..frameCount |-> DecodeFrame(payload, k - 1)]]

Failure(error) == [ok |-> FALSE, error |-> error, value |-> << >>]
Success(value) == [ok |-> TRUE, error |-> NO_ERROR, value |-> value]

\* binaryToDatum(data); createdAt and modifiedAt, the time of the call, are not
\* part of the value
binaryToDatum(bytes) ==
  LET header == readHeader(bytes)
  IN  IF header.thrown # NO_ERROR THEN Failure(header.thrown)
      ELSE LET invalid == validateHeader(header, Len(bytes))
           IN  IF invalid # NO_ERROR THEN Failure(invalid)
               ELSE LET spectralDataBuffer == SubSeq(bytes, DATUM_HEADER_SIZE + 1, Len(bytes))
                        decoded == decodeSpectralData(spectralDataBuffer, U32Value(header.frames))
                    IN  IF decoded.thrown # NO_ERROR THEN Failure(decoded.thrown)
                        ELSE Success([frames     |-> decoded.frames,
                                      sampleRate |-> 44100,
                                      frameCount |-> U32Value(header.frames),
                                      bandCount  |-> 20,
                                      name       |-> header.name,
                                      description |->
                                        <<"Imported datum with ", header.frames, " frames">>])

\* variant: only the magic number is looked at
validateFile_MagicOnly(bytes) ==
  IF Len(bytes) < 4 THEN Success(FALSE)
  ELSE Success(Slice(bytes, 0, 4) = DATUM_MAGIC)

\* validateFile(data): the length guard, readHeader and validateHeader inside
\* try, every error caught and turned into false
validateFile(bytes) ==
  IF Len(bytes) < DATUM_HEADER_SIZE THEN Success(FALSE)
  ELSE LET header == readHeader(bytes)
       IN  IF header.thrown # NO_ERROR THEN Success(FALSE)
           ELSE IF validateHeader(header, Len(bytes)) # NO_ERROR THEN Success(FALSE)
           ELSE Success(TRUE)

\* the null that getFileInfo returns
NULL == [null |-> TRUE]

\* variant: no length guard and no catch around readHeader
getFileInfo_Unguarded(bytes) ==
  LET header == readHeader(bytes)
  IN  IF header.thrown # NO_ERROR THEN Failure(header.thrown)
      ELSE Success([name |-> header.name, frames |-> header.frames, size |-> Len(bytes)])

\* variant: size is the size of the payload
getFileInfo_PayloadSize(bytes) ==
  IF Len(bytes) < DATUM_HEADER_SIZE THEN Success(NULL)
  ELSE LET header == readHeader(bytes)
       IN  IF header.thrown # NO_ERROR THEN Success(NULL)
           ELSE Success([name |-> header.name, frames |-> header.frames,
                         size |-> Len(bytes) - DATUM_HEADER_SIZE])

\* getFileInfo(data): the length guard and readHeader inside try, every error
\* caught and turned into null; validateHeader is not called
getFileInfo(bytes) ==
  IF Len(bytes) < DATUM_HEADER_SIZE THEN Success(NULL)
  ELSE LET header == readHeader(bytes)
       IN  IF header.thrown # NO_ERROR THEN Success(NULL)
           ELSE Success([name |-> header.name, frames |-> header.frames, size |-> Len(bytes)])

(***************************************************************************)
(* Inputs: the datasets the generation engine hands to datumToBinary and   *)
(* the files the persistence collaborator hands to binaryToDatum           *)
(***************************************************************************)
MaxFrames == 2          \* longest frames list
MaxNameLen == 21        \* longest name, in UTF-16 code units
MaxEdits == 2           \* changes made to a file before it is decoded
MaxEncodes == 2         \* datumToBinary calls on one dataset

\* band values: 0.0, 0.1, 0.9, 1.0, -0.0, NaN, -Infinity, 2^128 (beyond float32),
\* a value below the float32 normal range, a tie between two float32 values,
\* the largest double below 2^128 (rounds up to Infinity)
BandValues ==
  << Zero(0),
     Finite(0, -4, 13421772, 429496730),
     Finite(0, -1, 15099494, 214748365),
     Finite(0, 0, 2^23, 0),
     Zero(1),
     NaN,
     Infinity(1),
     Finite(0, 128, 2^23, 0),
     Finite(1, -140, 2^23 + 5, 7),
     Finite(0, 3, 2^23 + 1, 2^28),
     Finite(1, 127, 2^24 - 1, 2^29 - 1) >>

\* band i (from 0) of frame f of the dataset with value pattern p
BandValue(p, f, i) == BandValues[((p + 7 * f + i) % Len(BandValues)) + 1]

\* bands per frame, by shape and frame parity: 20 throughout, or short and long
FrameShapes == << <<20, 20>>, <<18, 25>>, <<25, 0>>, <<21, 19>> >>

Frame(shape, p, f) ==
  [bands     |-> [i \in 1..FrameShapes[shape][(f % 2) + 1] |-> BandValue(p, f, i - 1)],
   timestamp |-> f]

\* names: n code units of 'A', of U+00E9, of 'A' then U+00E9, of U+20AC, of the
\* surrogate pair D83D DE00 repeated, of 'A' ending in NUL, of U+FEFF then 'A'
NameKinds == 1..7
NameUnit(kind, n, i) ==
  CASE kind = 1 -> 65
    [] kind = 2 -> 233
    [] kind = 3 -> IF i = 1 THEN 65 ELSE 233
    [] kind = 4 -> 8364
    [] kind = 5 -> IF i % 2 = 1 THEN 55357 ELSE 56832
    [] kind = 6 -> IF i = n THEN 0 ELSE 65
    [] kind = 7 -> IF i = 1 THEN 65279 ELSE 65
Name(kind, n) == [i \in 1..n |-> NameUnit(kind, n, i)]
Names == {Name(kind, n) : kind \in NameKinds, n \in 0..MaxNameLen}
TEST_NAME == <<84, 101, 115, 116>>       \* 'Test'

Datum(name, frameCount, n, shape, p) ==
  [name       |-> name,
   frameCount |-> frameCount,
   bandCount  |-> 20,
   sampleRate |-> 44100,
   frames     |-> [k \in 1..n |-> Frame(shape, p, k - 1)]]

\* the metadata of a dataset that is not its name, frameCount or band values
OtherMetadata ==
  << [sampleRate |-> 48000, bandCount |-> 20, timeStep |-> 10],
     [sampleRate |-> 44100, bandCount |-> 16, timeStep |-> 1] >>

WithMetadata(d, m) ==
  [d EXCEPT !.sampleRate = OtherMetadata[m].sampleRate,
            !.bandCount  = OtherMetadata[m].bandCount,
            !.frames     = [k \in 1..Len(d.frames) |->
                              [d.frames[k] EXCEPT !.timestamp = k * OtherMetadata[m].timeStep]]]

\* every name with one frame; every frames list, with frameCount equal to and
\* different from frames.length, under two names; datasets with other metadata
Datasets ==
  {Datum(name, 1, 1, 1, 0) : name \in Names}
    \cup {Datum(name, frameCount, n, shape, p) :
            name \in {TEST_NAME, << >>}, frameCount \in 0..(MaxFrames + 1),
            n \in 0..MaxFrames, shape \in 1..Len(FrameShapes),
            p \in 0..(Len(BandValues) - 1)}
    \cup {WithMetadata(Datum(TEST_NAME, n, n, shape, 0), m) :
            n \in 1..MaxFrames, shape \in 1..Len(FrameShapes),
            m \in 1..Len(OtherMetadata)}

\* frames as an untyped caller may hand them over: complete, without a bands
\* list, with an undefined entry among 20 bands, with one at the end of 18
FrameDefects == <<"none", "nobands", "hole", "shorthole">>

DefectFrame(defect, p, f) ==
  CASE defect = "none" -> Frame(1, p, f)
    [] defect = "nobands" -> [timestamp |-> f]
    [] defect = "hole" ->
         [bands     |-> [i \in 1..20 |-> IF i = 3 THEN undefined ELSE BandValue(p, f, i - 1)],
          timestamp |-> f]
    [] defect = "shorthole" ->
         [bands     |-> [i \in 1..18 |-> IF i = 18 THEN undefined ELSE BandValue(p, f, i - 1)],
          timestamp |-> f]

\* a dataset object that may lack its name and its frameCount; frame f has
\* defect c + f of FrameDefects
ShapedDatum(hasName, hasCount, n, c, p) ==
  LET frames == [k \in 1..n |->
                   DefectFrame(FrameDefects[((c + k - 1) % Len(FrameDefects)) + 1], p, k - 1)]
  IN  CASE hasName /\ hasCount ->
             [name |-> TEST_NAME, frameCount |-> n, bandCount |-> 20,
              sampleRate |-> 44100, frames |-> frames]
        [] hasName /\ ~hasCount ->
             [name |-> TEST_NAME, bandCount |-> 20, sampleRate |-> 44100, frames |-> frames]
        [] ~hasName /\ hasCount ->
             [frameCount |-> n, bandCount |-> 20, sampleRate |-> 44100, frames |-> frames]
        [] ~hasName /\ ~hasCount ->
             [bandCount |-> 20, sampleRate |-> 44100, frames |-> frames]

ShapedDatasets ==
  {ShapedDatum(hasName, hasCount, n, c, p) :
     hasName \in BOOLEAN, hasCount \in BOOLEAN, n \in 1..MaxFrames,
     c \in 0..(Len(FrameDefects) - 1), p \in 0..2}

\* the files the decoder starts from: exports with 0..MaxFrames frames
SampleFiles == {datumToBinary(Datum(TEST_NAME, n, n, 1, n)) : n \in 0..MaxFrames}

NoResult == [op |-> "none", ok |-> TRUE, error |-> NO_ERROR, value |-> << >>]

(***************************************************************************)
(* The codec calls                                                         *)
(***************************************************************************)
\* the caller exports its dataset: datumToBinary(datum) returns the buffer
\* that data becomes, or throws
DatumToBinary ==
  /\ encodes < MaxEncodes
  /\ res.op # "datumToBinary"
  /\ LET thrown == datumToBinaryThrown(datum)
     IN  IF thrown # NO_ERROR
           THEN /\ res' = Result("datumToBinary", Failure(thrown))
                /\ UNCHANGED <<data, origin>>
           ELSE /\ data' = datumToBinary(datum)
                /\ origin' = "encoder"
                /\ res' = Result("datumToBinary", Success(data'))
  /\ datum' = [datum EXCEPT !.frames = framesAfterEncode(datum.frames)]
  /\ encodes' = encodes + 1
  /\ UNCHANGED edits
  /\ UNCHANGED notCodec

\* the caller imports its buffer: binaryToDatum(data) returns or throws
BinaryToDatum ==
  /\ res.op # "binaryToDatum"
  /\ res' = Result("binaryToDatum", binaryToDatum(data))
  /\ UNCHANGED <<datum, data, origin, edits, encodes>>
  /\ UNCHANGED notCodec

\* the caller asks whether its buffer is a datum file
ValidateFile ==
  /\ res.op # "validateFile"
  /\ res' = Result("validateFile", validateFile(data))
  /\ UNCHANGED <<datum, data, origin, edits, encodes>>
  /\ UNCHANGED notCodec

\* the caller asks for the summary of its buffer
GetFileInfo ==
  /\ res.op # "getFileInfo"
  /\ res' = Result("getFileInfo", getFileInfo(data))
  /\ UNCHANGED <<datum, data, origin, edits, encodes>>
  /\ UNCHANGED notCodec

(***************************************************************************)
(* Several call sites.  Buffers and dataset objects have an identity: the  *)
(* index in heap and in store.  A call site calls the codec on any buffer  *)
(* or dataset there is, and keeps what the call returned; the callers      *)
(* change the objects they hold between the calls.  The calls are          *)
(* synchronous, so they interleave call by call.                           *)
(***************************************************************************)
MaxCalls == 2           \* codec calls of the call sites together
MaxChanges == 1         \* changes the callers make to their objects

\* two places in the application that call the codec
CallSites == {"exporter", "importer"}

\* a reference to an object: a buffer of heap, a dataset of store, or a value
\* that is not an object (boolean, the record of getFileInfo, null)
BufferRef(b) == <<"buffer", b>>
DatasetRef(k) == <<"dataset", k>>
NoRef == <<"value", 0>>

\* the object a reference names
Content(ref) == IF ref[1] = "buffer" THEN heap[ref[2]] ELSE store[ref[2]]

\* what a call site keeps of a call: the outcome, with the value as it was
\* when the call returned, and the reference to the returned object
Held(op, r, ref) ==
  [op |-> op, ok |-> r.ok, error |-> r.error, value |-> r.value, ref |-> ref]
NoCall == [op |-> "none", ok |-> TRUE, error |-> NO_ERROR, value |-> << >>, ref |-> NoRef]

\* variant: the encoder writes into the buffer it allocated last
Allocate_Reused(buffers) == IF buffers = << >> THEN 1 ELSE Len(buffers)

\* new ArrayBuffer(totalSize) in datumToBinary: a buffer nobody has yet
Allocate(buffers) == Len(buffers) + 1

\* the buffers after buffer b was filled with bytes
Put(buffers, b, bytes) ==
  [i \in 1..(IF b > Len(buffers) THEN b ELSE Len(buffers)) |->
     IF i = b THEN bytes ELSE buffers[i]]

\* the caller's buffer after binaryToDatum, validateFile or getFileInfo: the
\* header is read with the get accessors of a DataView, the payload from a
\* slice copy, so it is as before
dataAfterRead(bytes) == bytes

\* call site s exports dataset k
SiteDatumToBinary(s, k) ==
  /\ calls < MaxCalls
  /\ LET thrown == datumToBinaryThrown(store[k])
     IN  IF thrown # NO_ERROR
           THEN /\ held' = [held EXCEPT ![s] = Held("datumToBinary", Failure(thrown), NoRef)]
                /\ UNCHANGED heap
           ELSE LET b == Allocate(heap)
                    bytes == datumToBinary(store[k])
                IN  /\ heap' = Put(heap, b, bytes)
                    /\ held' = [held EXCEPT
                                  ![s] = Held("datumToBinary", Success(bytes), BufferRef(b))]
  /\ store' = [store EXCEPT ![k].frames = framesAfterEncode(@)]
  /\ last' = [site |-> s, op |-> "datumToBinary", arg |-> k]
  /\ calls' = calls + 1
  /\ now' = now + 1
  /\ UNCHANGED <<touched, changes>>
  /\ UNCHANGED notSites

\* the dataset binaryToDatum returns at time t, createdAt and modifiedAt set
\* by new Date()
binaryToDatumAt(bytes, t) ==
  LET r == binaryToDatum(bytes)
  IN  IF ~r.ok THEN r
      ELSE Success([frames      |-> r.value.frames,
                    sampleRate  |-> r.value.sampleRate,
                    frameCount  |-> r.value.frameCount,
                    bandCount   |-> r.value.bandCount,
                    name        |-> r.value.name,
                    description |-> r.value.description,
                    createdAt   |-> t,
                    modifiedAt  |-> t])

\* call site s imports buffer b: the dataset returned is a new object
SiteBinaryToDatum(s, b) ==
  /\ calls < MaxCalls
  /\ LET r == binaryToDatumAt(heap[b], now)
     IN  IF r.ok
           THEN /\ store' = Append(store, r.value)
                /\ held' = [held EXCEPT
                              ![s] = Held("binaryToDatum", r, DatasetRef(Len(store) + 1))]
           ELSE /\ held' = [held EXCEPT ![s] = Held("binaryToDatum", r, NoRef)]
                /\ UNCHANGED store
  /\ heap' = [heap EXCEPT ![b] = dataAfterRead(@)]
  /\ last' = [site |-> s, op |-> "binaryToDatum", arg |-> b]
  /\ calls' = calls + 1
  /\ now' = now + 1
  /\ UNCHANGED <<touched, changes>>
  /\ UNCHANGED notSites

\* call site s asks whether buffer b is a datum file
SiteValidateFile(s, b) ==
  /\ calls < MaxCalls
  /\ held' = [held EXCEPT ![s] = Held("validateFile", validateFile(heap[b]), NoRef)]
  /\ heap' = [heap EXCEPT ![b] = dataAfterRead(@)]
  /\ last' = [site |-> s, op |-> "validateFile", arg |-> b]
  /\ calls' = calls + 1
  /\ now' = now + 1
  /\ UNCHANGED <<store, touched, changes>>
  /\ UNCHANGED notSites

\* call site s asks for the summary of buffer b
SiteGetFileInfo(s, b) ==
  /\ calls < MaxCalls
  /\ held' = [held EXCEPT ![s] = Held("getFileInfo", getFileInfo(heap[b]), NoRef)]
  /\ heap' = [heap EXCEPT ![b] = dataAfterRead(@)]
  /\ last' = [site |-> s, op |-> "getFileInfo", arg |-> b]
  /\ calls' = calls + 1
  /\ now' = now + 1
  /\ UNCHANGED <<store, touched, changes>>
  /\ UNCHANGED notSites

\* a holder of buffer b writes another byte at the start of its payload, or
\* at its start when it has no payload
ChangeBuffer(b) ==
  /\ changes < MaxChanges
  /\ LET off == IF InBounds(heap[b], DATUM_HEADER_SIZE, 1) THEN DATUM_HEADER_SIZE ELSE 0
     IN  heap' = [heap EXCEPT ![b][off + 1] = (@ + 1) % 256]
  /\ touched' = touched \cup {BufferRef(b)}
  /\ changes' = changes + 1
  /\ UNCHANGED <<store, held, last, calls, now>>
  /\ UNCHANGED notSites

\* a holder of dataset k sets the first band of its first frame
ChangeDataset(k) ==
  /\ changes < MaxChanges
  /\ store[k].frames # << >>
  /\ store[k].frames[1].bands # << >>
  /\ store' = [store EXCEPT ![k].frames[1].bands[1] = IF @ = Zero(0) THEN NaN ELSE Zero(0)]
  /\ touched' = touched \cup {DatasetRef(k)}
  /\ changes' = changes + 1
  /\ UNCHANGED <<heap, held, last, calls, now>>
  /\ UNCHANGED notSites

(***************************************************************************)
(* The file collaborator: the bytes that reach the codec are whatever the  *)
(* picked file holds; the file is in its final form before the first call  *)
(***************************************************************************)
\* offsets of the uint32 header fields and the values a file may hold there
\* (4294967295 is written as -1)
Uint32Fields == {4, 8, 32, 36, 40}
Uint32Values == {0, 1, 2, 3, DATUM_HEADER_SIZE, 65536, -1}

\* a uint32 header field holds another value
FileSetUint32 ==
  /\ edits < MaxEdits /\ res.op = "none"
  /\ \E off \in Uint32Fields : \E v \in Uint32Values :
       /\ InBounds(data, off, 4)
       /\ data' = [i \in 1..Len(data) |->
                     IF i > off /\ i <= off + 4 THEN setUint32(v)[i - off] ELSE data[i]]
       /\ data' # data
  /\ origin' = "file"
  /\ edits' = edits + 1
  /\ UNCHANGED <<datum, encodes, res>>
  /\ UNCHANGED notCodec

\* one byte of the magic, the name or the payload holds another value
FileSetByte ==
  /\ edits < MaxEdits /\ res.op = "none"
  /\ \E off \in {0, 3, 12, 31, 132, DATUM_HEADER_SIZE, DATUM_HEADER_SIZE + 3} :
     \E b \in {0, 77, 255} :
       /\ InBounds(data, off, 1)
       /\ data' = [data EXCEPT ![off + 1] = b]
       /\ data' # data
  /\ origin' = "file"
  /\ edits' = edits + 1
  /\ UNCHANGED <<datum, encodes, res>>
  /\ UNCHANGED notCodec

\* the lengths a truncated file is cut to: inside the magic, inside the header,
\* the bare header, and up to a frame short of the payload
TruncatedLengths(len) ==
  {0, 3, 4, 10, 35, DATUM_HEADER_SIZE - 1, DATUM_HEADER_SIZE, DATUM_HEADER_SIZE + 1,
   len - BANDS_PER_FRAME * 4, len - 1}

\* the file is truncated
FileTruncate ==
  /\ edits < MaxEdits /\ res.op = "none"
  /\ \E n \in TruncatedLengths(Len(data)) :
       /\ n >= 0 /\ n < Len(data)
       /\ data' = SubSeq(data, 1, n)
  /\ origin' = "file"
  /\ edits' = edits + 1
  /\ UNCHANGED <<datum, encodes, res>>
  /\ UNCHANGED notCodec

\* the file is padded: one byte, or a whole frame of bytes, follows
FilePad ==
  /\ edits < MaxEdits /\ res.op = "none"
  /\ \E n \in {1, BANDS_PER_FRAME * 4} : \E b \in {0, 63} :
       data' = data \o Fill(b, n)
  /\ origin' = "file"
  /\ edits' = edits + 1
  /\ UNCHANGED <<datum, encodes, res>>
  /\ UNCHANGED notCodec

(***************************************************************************)
(* DeviceService of src/src/services/DeviceBridge/DeviceService.ts.        *)
(*                                                                         *)
(* A Map is a function whose domain is the keys it holds; the Maps of      *)
(* ports, writers and readers are the sets of their keys.  A string is     *)
(* the sequence of its code units.  A number is its value in               *)
(* ten-thousandths (the device prints four decimals); the numbers that     *)
(* are met have at most four decimals.  An async method is a sequence of   *)
(* steps, one from each await to the next.                                 *)
(***************************************************************************)
MaxAttempts == 1        \* connectSerial calls
MaxChunk == 3           \* longest chunk a read returns, in bytes

\* the connection ids crypto.randomUUID() returns, in the order it returns them
ConnectionIds == 1..MaxAttempts

\* 'blur-attack', 'blur-decay', 'osc-gain' as code units
ParamIds == {"blur-attack", "blur-decay", "osc-gain"}
ParamChars(id) ==
  CASE id = "blur-attack" -> <<98, 108, 117, 114, 45, 97, 116, 116, 97, 99, 107>>
    [] id = "blur-decay" -> <<98, 108, 117, 114, 45, 100, 101, 99, 97, 121>>
    [] id = "osc-gain" -> <<111, 115, 99, 45, 103, 97, 105, 110>>

\* values of a parameter: a number in ten-thousandths, NaN, an infinity, a
\* boolean (n is 1 for true)
Number(n) == [k |-> "number", n |-> n]
NotANumber == [k |-> "NaN", n |-> 0]
InfiniteNumber(s) == [k |-> "Infinity", n |-> IF s = 1 THEN -1 ELSE 1]
Boolean(b) == [k |-> "boolean", n |-> IF b THEN 1 ELSE 0]
IsNumberType(v) == v.k \in {"number", "NaN", "Infinity"}       \* typeof v === 'number'

\* a < b and a > b on values of type number: false when one is NaN
LessThan(a, b) ==
  /\ a.k # "NaN" /\ b.k # "NaN"
  /\ \/ a.k = "number" /\ b.k = "number" /\ a.n < b.n
     \/ a.k = "Infinity" /\ a.n < 0 /\ ~(b.k = "Infinity" /\ b.n < 0)
     \/ b.k = "Infinity" /\ b.n > 0 /\ ~(a.k = "Infinity" /\ a.n > 0)
GreaterThan(a, b) == LessThan(b, a)

\* the number a float32 read from a message is: exact for the floats with at
\* most 11 significant bits and magnitude below 128 that the messages hold
FromFloat32(x) ==
  CASE x.k = "nan" -> NotANumber
    [] x.k = "inf" -> InfiniteNumber(x.s)
    [] x.k = "zero" -> Number(0)
    [] x.k = "fin" ->
         LET t == (x.hi \div 2^13) * 10000
             m == IF x.e >= 10 THEN t * 2^(x.e - 10) ELSE t \div 2^(10 - x.e)
         IN  Number(IF x.s = 1 THEN 0 - m ELSE m)

\* the parameters syncParametersFromDevice sets: 0.3, 0.1 and 0.9 in 0..1
DefaultParameter(id) ==
  [value |-> CASE id = "blur-attack" -> Number(3000)
               [] id = "blur-decay" -> Number(1000)
               [] id = "osc-gain" -> Number(9000),
   min |-> Number(0),
   max |-> Number(10000)]
DefaultParameters == [id \in ParamIds |-> DefaultParameter(id)]

(***************************************************************************)
(* Strings                                                                 *)
(***************************************************************************)
NEWLINE == 10
\* what trim() removes and \s matches
WhiteSpace ==
  {9, 10, 11, 12, 13, 32, 160, 5760, 8232, 8233, 8239, 8287, 12288, 65279} \cup (8192..8202)
DOT == 46

\* str.split('\n'): the pieces between the newlines, at least one
RECURSIVE Split(_, _)
Split(str, piece) ==
  IF str = << >> THEN <<piece>>
  ELSE IF Head(str) = NEWLINE THEN <<piece>> \o Split(Tail(str), << >>)
  ELSE Split(Tail(str), Append(piece, Head(str)))

RECURSIVE TrimStart(_)
TrimStart(str) ==
  IF str # << >> /\ Head(str) \in WhiteSpace THEN TrimStart(Tail(str)) ELSE str
RECURSIVE TrimEnd(_)
TrimEnd(str) ==
  IF str # << >> /\ str[Len(str)] \in WhiteSpace
    THEN TrimEnd(SubSeq(str, 1, Len(str) - 1)) ELSE str
\* str.trim()
Trim(str) == TrimEnd(TrimStart(str))

StartsWith(str, prefix) ==
  Len(str) >= Len(prefix) /\ SubSeq(str, 1, Len(prefix)) = prefix

\* the longest prefix of str made of code units of the class
RECURSIVE Run(_, _)
Run(str, class) ==
  IF str # << >> /\ Head(str) \in class THEN <<Head(str)>> \o Run(Tail(str), class) ELSE << >>

Digits == 48..57                  \* \d
DigitsOrDot == Digits \cup {46}   \* [\d.]

\* the digits as a number
RECURSIVE DigitsValue(_, _)
DigitsValue(digits, acc) ==
  IF digits = << >> THEN acc ELSE DigitsValue(Tail(digits), acc * 10 + (Head(digits) - 48))

\* parseFloat of a string of digits and dots: the digits, a dot and the digits
\* after it; NaN without a digit.  In ten-thousandths, four decimals are kept.
parseFloat(str) ==
  LET int == Run(str, Digits)
      rest == SubSeq(str, Len(int) + 1, Len(str))
      frac == IF rest # << >> /\ Head(rest) = DOT THEN Run(Tail(rest), Digits) ELSE << >>
      four == [i \in 1..4 |-> IF i <= Len(frac) THEN frac[i] ELSE 48]
  IN  IF int = << >> /\ frac = << >> THEN NotANumber
      ELSE Number(DigitsValue(int, 0) * 10000 + DigitsValue(four, 0))

\* line.match(/^(blur-attack|blur-decay|osc-gain)\s+([\d.]+)/): the parameter
\* id and the value string, or no match
Match(line) ==
  LET ids == {id \in ParamIds :
                /\ StartsWith(line, ParamChars(id))
                /\ LET after == SubSeq(line, Len(ParamChars(id)) + 1, Len(line))
                       spaces == Run(after, WhiteSpace)
                   IN  /\ spaces # << >>
                       /\ Run(SubSeq(after, Len(spaces) + 1, Len(after)), DigitsOrDot) # << >>}
  IN  IF ids = {} THEN [matched |-> FALSE, paramId |-> "", valueStr |-> << >>]
      ELSE LET id == CHOOSE i \in ids : TRUE
               after == SubSeq(line, Len(ParamChars(id)) + 1, Len(line))
               spaces == Run(after, WhiteSpace)
           IN  [matched |-> TRUE, paramId |-> id,
                valueStr |-> Run(SubSeq(after, Len(spaces) + 1, Len(after)), DigitsOrDot)]

\* the parameter cache after parseParameterResponse(line)
parseParameterResponse(params, line) ==
  LET m == Match(line)
  IN  IF m.matched /\ parseFloat(m.valueStr).k # "NaN" /\ m.paramId \in DOMAIN params
        THEN [params EXCEPT ![m.paramId].value = parseFloat(m.valueStr)]
        ELSE params

\* parseParameterResponse(line) emits PARAMETER_CHANGED
ParameterChanged(line) ==
  Match(line).matched /\ parseFloat(Match(line).valueStr).k # "NaN"

\* the lines handleTextResponse hands to parseParameterResponse when text is
\* added to the buffer: the complete lines, trimmed, the empty ones left out
CompleteLines(text) ==
  LET lines == Split(text, << >>)
  IN  SelectSeq([i \in 1..(Len(lines) - 1) |-> Trim(lines[i])], LAMBDA l : l # << >>)

\* what handleTextResponse keeps in the buffer: the piece after the last newline
Incomplete(text) == Split(text, << >>)[Len(Split(text, << >>))]

\* the parameter cache after the lines were parsed, in order
RECURSIVE ParseLines(_, _)
ParseLines(params, lines) ==
  IF lines = << >> THEN params
  ELSE ParseLines(parseParameterResponse(params, Head(lines)), Tail(lines))

(***************************************************************************)
(* The service and its collaborators                                       *)
(***************************************************************************)
MapSet(map, key, value) ==
  [k \in DOMAIN map \cup {key} |-> IF k = key THEN value ELSE map[k]]
MapDelete(map, key) == [k \in DOMAIN map \ {key} |-> map[k]]
\* map.get(key) is truthy
Truthy(map, key) == key \in DOMAIN map /\ map[key]

\* the events the listeners were called with: how often, by type and connection
EventTypes ==
  {"DEVICE_CONNECTED", "DEVICE_DISCONNECTED", "PARAMETER_CHANGED", "DATA_RECEIVED",
   "CONNECTION_ERROR", "DEVICE_INFO_RECEIVED"}
NoEvents(ids) == [e \in EventTypes \X ({0} \cup ids) |-> 0]
\* this.emit({type, payload}) added to a log; the events without a connection
\* id count under 0
Emit(log, type, id) == [log EXCEPT ![<<type, id>>] = @ + 1]

\* a connectSerial call: where it is, the id it made, what it emitted
ConnectCall(pc, id, error, connected) ==
  [pc |-> pc, id |-> id, errorEmitted |-> error, connectedEmitted |-> connected]
NoConnectCall == ConnectCall("idle", 0, FALSE, FALSE)

\* the catch of connectSerial: CONNECTION_ERROR is emitted and the call rejects
ConnectFailed ==
  /\ emitted' = Emit(emitted, "CONNECTION_ERROR", 0)
  /\ connect' = ConnectCall("rejected", connect.id, TRUE, connect.connectedEmitted)

\* connectSerial(): up to await requestPort(); without the Web Serial API the
\* call throws before its try
ConnectSerial ==
  /\ connect.pc \in {"idle", "resolved", "rejected"}
  /\ attempts < MaxAttempts
  /\ attempts' = attempts + 1
  /\ connect' = IF supported THEN ConnectCall("requestPort", 0, FALSE, FALSE)
                ELSE ConnectCall("rejected", 0, FALSE, FALSE)
  /\ UNCHANGED <<supported, connections, serialPorts, serialWriters, serialReaders,
                 readLoopActive, textResponseBuffer, parameters, emitted, closing, loop,
                 cancelled, wire, received, handed, sent, nextId, inputs, update>>
  /\ UNCHANGED notDevice

\* requestPort() settles: the user picks a port, or dismisses the dialog
ConnectRequestPort ==
  /\ connect.pc = "requestPort"
  /\ \E granted \in BOOLEAN :
       IF granted
         THEN /\ connect' = [connect EXCEPT !.pc = "open"]
              /\ UNCHANGED emitted
         ELSE ConnectFailed
  /\ UNCHANGED <<supported, connections, serialPorts, serialWriters, serialReaders,
                 readLoopActive, textResponseBuffer, parameters, closing, loop,
                 cancelled, wire, received, handed, sent, nextId, attempts, inputs, update>>
  /\ UNCHANGED notDevice

\* port.open() settles; when the port is open the connection, the port, the
\* writer and the reader are registered and the read loop starts its first read
ConnectOpen ==
  /\ connect.pc = "open"
  /\ \E opened \in BOOLEAN :
       IF opened
         THEN /\ connect' = [connect EXCEPT !.pc = "setup", !.id = nextId]
              /\ connections' = MapSet(connections, nextId, [isConnected |-> TRUE])
              /\ serialPorts' = serialPorts \cup {nextId}
              /\ serialWriters' = serialWriters \cup {nextId}
              /\ serialReaders' = serialReaders \cup {nextId}
              /\ readLoopActive' = MapSet(readLoopActive, nextId, TRUE)
              /\ loop' = [loop EXCEPT ![nextId] = "reading"]
              /\ nextId' = nextId + 1
              /\ UNCHANGED emitted
         ELSE /\ ConnectFailed
              /\ UNCHANGED <<connections, serialPorts, serialWriters, serialReaders,
                             readLoopActive, loop, nextId>>
  /\ UNCHANGED <<supported, textResponseBuffer, parameters, closing, cancelled, wire,
                 received, handed, sent, attempts, inputs, update>>
  /\ UNCHANGED notDevice

\* after await setupSerialCommunication: DEVICE_CONNECTED is emitted,
\* syncParametersFromDevice sets the three parameters and, when the writer is
\* still registered, writes the first query
ConnectSetup ==
  /\ connect.pc = "setup"
  /\ emitted' = Emit(emitted, "DEVICE_CONNECTED", connect.id)
  /\ parameters' = [p \in DOMAIN parameters \cup ParamIds |->
                      IF p \in ParamIds THEN DefaultParameter(p) ELSE parameters[p]]
  /\ IF connect.id \in serialWriters
       THEN /\ connect' = [connect EXCEPT !.pc = "write1", !.connectedEmitted = TRUE]
            /\ sent' = sent + 1
       ELSE /\ connect' = [connect EXCEPT !.pc = "resolved", !.connectedEmitted = TRUE]
            /\ UNCHANGED sent
  /\ UNCHANGED <<supported, connections, serialPorts, serialWriters, serialReaders,
                 readLoopActive, textResponseBuffer, closing, loop, cancelled, wire,
                 received, handed, nextId, attempts, inputs, update>>
  /\ UNCHANGED notDevice

\* a writer.write() of syncParametersFromDevice settles: the next query is
\* written, or the call returns the id; a failed write rejects the call
ConnectWrite ==
  /\ connect.pc \in {"write1", "write2", "write3"}
  /\ \E written \in BOOLEAN :
       IF written
         THEN /\ connect' = [connect EXCEPT
                               !.pc = CASE connect.pc = "write1" -> "write2"
                                        [] connect.pc = "write2" -> "write3"
                                        [] connect.pc = "write3" -> "resolved"]
              /\ sent' = IF connect.pc = "write3" THEN sent ELSE sent + 1
              /\ UNCHANGED emitted
         ELSE /\ ConnectFailed
              /\ UNCHANGED sent
  /\ UNCHANGED <<supported, connections, serialPorts, serialWriters, serialReaders,
                 readLoopActive, textResponseBuffer, parameters, closing, loop,
                 cancelled, wire, received, handed, nextId, attempts, inputs, update>>
  /\ UNCHANGED notDevice

\* the finally of startSerialReadLoop
ReadLoopEnds(id) ==
  /\ serialReaders' = serialReaders \ {id}
  /\ loop' = [loop EXCEPT ![id] = "ended"]

\* reader.read() of connection id returns the next bytes of the device: the
\* text is added to the buffer and its complete lines are parsed
ReadChunk(id) ==
  /\ loop[id] = "reading" /\ id \notin cancelled
  /\ wire[id] # << >>
  /\ \E n \in 1..MaxChunk :
       /\ n <= Len(wire[id])
       /\ LET value == SubSeq(wire[id], 1, n)
              text == TextDecode(value)
              lines == CompleteLines(textResponseBuffer \o text)
          IN  /\ wire' = [wire EXCEPT ![id] = SubSeq(@, n + 1, Len(@))]
              /\ IF ~Truthy(readLoopActive, id)
                   THEN /\ ReadLoopEnds(id)
                        /\ UNCHANGED <<textResponseBuffer, parameters, emitted, received, handed>>
                   ELSE /\ received' = [received EXCEPT ![id] = @ \o text]
                        /\ textResponseBuffer' = Incomplete(textResponseBuffer \o text)
                        /\ handed' = [handed EXCEPT ![id] = @ \o lines]
                        /\ parameters' = ParseLines(parameters, lines)
                        /\ emitted' =
                             [emitted EXCEPT ![<<"PARAMETER_CHANGED", 0>>] =
                                @ + Len(SelectSeq(lines, ParameterChanged))]
                        /\ UNCHANGED <<serialReaders, loop>>
  /\ UNCHANGED <<supported, connections, serialPorts, serialWriters, readLoopActive,
                 connect, closing, cancelled, sent, nextId, attempts, inputs, update>>
  /\ UNCHANGED notDevice

\* reader.read() returns done after reader.cancel(): the loop ends
ReadDone(id) ==
  /\ loop[id] = "reading" /\ id \in cancelled
  /\ ReadLoopEnds(id)
  /\ UNCHANGED <<supported, connections, serialPorts, serialWriters, readLoopActive,
                 textResponseBuffer, parameters, emitted, connect, closing, cancelled,
                 wire, received, handed, sent, nextId, attempts, inputs, update>>
  /\ UNCHANGED notDevice

\* reader.read() rejects (the device is lost, or the read is aborted): when the
\* loop is still active the connection is marked and DEVICE_DISCONNECTED emitted
ReadError(id) ==
  /\ loop[id] = "reading"
  /\ \E name \in {"NetworkError", "AbortError"} :
       IF name # "AbortError" /\ Truthy(readLoopActive, id)
            /\ id \in DOMAIN connections /\ connections[id].isConnected
         THEN /\ connections' = [connections EXCEPT ![id].isConnected = FALSE]
              /\ emitted' = Emit(emitted, "DEVICE_DISCONNECTED", id)
         ELSE UNCHANGED <<connections, emitted>>
  /\ ReadLoopEnds(id)
  /\ UNCHANGED <<supported, serialPorts, serialWriters, readLoopActive,
                 textResponseBuffer, parameters, connect, closing, cancelled,
                 wire, received, handed, sent, nextId, attempts, inputs, update>>
  /\ UNCHANGED notDevice

\* the end of disconnect(id): from serialPorts.delete to the event
DisconnectFinish(id, conns, active) ==
  /\ serialPorts' = serialPorts \ {id}
  /\ readLoopActive' = MapDelete(active, id)
  /\ textResponseBuffer' = << >>
  /\ connections' = MapDelete(conns, id)
  /\ emitted' = Emit(emitted, "DEVICE_DISCONNECTED", id)
  /\ closing' = [closing EXCEPT ![id] = "none"]

\* disconnect(id) from the release of the writer on: up to await port.close(),
\* or to the end when no port is registered
DisconnectWriter(id, conns, active) ==
  /\ serialWriters' = serialWriters \ {id}
  /\ IF id \in serialPorts
       THEN /\ closing' = [closing EXCEPT ![id] = "close"]
            /\ connections' = conns
            /\ readLoopActive' = active
            /\ UNCHANGED <<serialPorts, textResponseBuffer, emitted>>
       ELSE DisconnectFinish(id, conns, active)

\* disconnect(id) is called for a registered connection: up to await
\* reader.cancel(), or further when no reader is registered
DisconnectStart(id) ==
  /\ closing[id] = "none"
  /\ id \in DOMAIN connections
  /\ LET conns == [connections EXCEPT ![id].isConnected = FALSE]
         active == MapSet(readLoopActive, id, FALSE)
     IN  IF id \in serialReaders
           THEN /\ connections' = conns
                /\ readLoopActive' = active
                /\ cancelled' = cancelled \cup {id}
                /\ closing' = [closing EXCEPT ![id] = "cancel"]
                /\ UNCHANGED <<serialPorts, serialWriters, serialReaders,
                               textResponseBuffer, emitted>>
           ELSE /\ DisconnectWriter(id, conns, active)
                /\ UNCHANGED <<serialReaders, cancelled>>
  /\ UNCHANGED <<supported, parameters, connect, loop, wire, received, handed, sent,
                 nextId, attempts, inputs, update>>
  /\ UNCHANGED notDevice

\* reader.cancel() of disconnect(id) settles
DisconnectCancelled(id) ==
  /\ closing[id] = "cancel"
  /\ serialReaders' = serialReaders \ {id}
  /\ DisconnectWriter(id, connections, readLoopActive)
  /\ UNCHANGED <<supported, parameters, connect, loop, cancelled, wire, received, handed,
                 sent, nextId, attempts, inputs, update>>
  /\ UNCHANGED notDevice

\* port.close() of disconnect(id) settles
DisconnectClosed(id) ==
  /\ closing[id] = "close"
  /\ DisconnectFinish(id, connections, readLoopActive)
  /\ UNCHANGED <<supported, serialWriters, serialReaders, parameters, connect, loop,
                 cancelled, wire, received, handed, sent, nextId, attempts, inputs, update>>
  /\ UNCHANGED notDevice

(***************************************************************************)
(* Parameters                                                              *)
(***************************************************************************)
MaxInputs == 2          \* updateParameter calls and binary messages

\* an updateParameter call: the parameter and how the call ended
UpdateCall(parameterId, outcome) == [parameterId |-> parameterId, outcome |-> outcome]

\* updateParameter(parameterId, value): whether it throws, and the parameter
\* cache and the number of sendMessage calls when it does not
updateParameter(params, parameterId, value) ==
  IF parameterId \notin DOMAIN params
    THEN [thrown |-> TRUE, parameters |-> params, sends |-> 0]
  ELSE IF IsNumberType(value) /\ LessThan(value, params[parameterId].min)
    THEN [thrown |-> TRUE, parameters |-> params, sends |-> 0]
  ELSE IF IsNumberType(value) /\ GreaterThan(value, params[parameterId].max)
    THEN [thrown |-> TRUE, parameters |-> params, sends |-> 0]
  ELSE [thrown |-> FALSE,
        parameters |-> [params EXCEPT ![parameterId].value = value],
        sends |-> Cardinality({c \in DOMAIN connections : connections[c].isConnected})]

\* the parameters and values the application calls updateParameter with:
\* 0.5, -0.0001, 1.5, NaN, true
UpdateIds == {"osc-gain", "volume"}
UpdateValues == {Number(5000), Number(-1), Number(15000), NotANumber, Boolean(TRUE)}

\* the application calls updateParameter(parameterId, value)
UpdateParameter ==
  /\ inputs < MaxInputs
  /\ inputs' = inputs + 1
  /\ \E parameterId \in UpdateIds : \E value \in UpdateValues :
       LET r == updateParameter(parameters, parameterId, value)
       IN  /\ parameters' = r.parameters
           /\ sent' = sent + r.sends
           /\ update' = UpdateCall(parameterId, IF r.thrown THEN "rejected" ELSE "resolved")
  /\ UNCHANGED <<supported, connections, serialPorts, serialWriters, serialReaders,
                 readLoopActive, textResponseBuffer, emitted, connect, closing, loop,
                 cancelled, wire, received, handed, nextId, attempts>>
  /\ UNCHANGED notDevice

\* the id a decoded parameter name is
ParamIdOf(chars) ==
  IF \E id \in ParamIds : ParamChars(id) = chars
    THEN CHOOSE id \in ParamIds : ParamChars(id) = chars
    ELSE "?"

\* parseBinaryMessage(data): [type:1][length:2][payload:length]; the message
\* type and the parsed payload, or thrown.  An info_response is parsed by
\* JSON.parse, which throws on the empty payload, the only one that is met.
parseBinaryMessage(bytes) ==
  LET type == IF Len(bytes) >= 1 THEN bytes[1] ELSE -1
      length == (IF Len(bytes) >= 2 THEN bytes[2] * 256 ELSE 0)
                  + (IF Len(bytes) >= 3 THEN bytes[3] ELSE 0)
      end == IF 3 + length < Len(bytes) THEN 3 + length ELSE Len(bytes)
      payload == SubSeq(bytes, 4, end)
      none == [thrown |-> TRUE, type |-> "none", parameterId |-> "?", value |-> Number(0)]
  IN  CASE type = 1 ->
             IF Len(payload) < 4 + BANDS_PER_FRAME * 4 + 4 + 4 THEN none
             ELSE [none EXCEPT !.thrown = FALSE, !.type = "data_stream"]
        [] type = 2 /\ payload = << >> -> none
        [] type = 3 ->
             IF payload = << >> \/ ~InBounds(payload, 1 + payload[1], 4) THEN none
             ELSE [thrown |-> FALSE, type |-> "parameter_update",
                   parameterId |-> ParamIdOf(TextDecode(SubSeq(payload, 2, 1 + payload[1]))),
                   value |-> FromFloat32(getFloat32(payload, 1 + payload[1]))]
        [] OTHER -> none

\* a parameter_update message for the parameter with the float32 bytes
ParameterUpdateMessage(parameterId, float) ==
  <<3, 0, 1 + Len(ParamChars(parameterId)) + 4>>
    \o <<Len(ParamChars(parameterId))>> \o ParamChars(parameterId) \o float

\* the binary messages that arrive: updates of osc-gain to 0.5, 2.0, NaN and
\* -1.0, an update cut short, a data_stream message, an empty info_response and
\* a message of unknown type
Messages ==
  {ParameterUpdateMessage("osc-gain", <<0, 0, 0, 63>>),
   ParameterUpdateMessage("osc-gain", <<0, 0, 0, 64>>),
   ParameterUpdateMessage("osc-gain", <<0, 0, 192, 127>>),
   ParameterUpdateMessage("osc-gain", <<0, 0, 128, 191>>),
   <<3, 0, 3, 8, 111>>,
   <<1, 0, 92>> \o Fill(0, 92),
   <<2, 0, 0>>,
   <<127, 0, 0>>}

\* handleIncomingData(data): a parameter_update calls updateParameter, whose
\* rejection nobody awaits, and emits PARAMETER_CHANGED
HandleIncomingData ==
  /\ inputs < MaxInputs
  /\ inputs' = inputs + 1
  /\ \E bytes \in Messages :
       LET message == parseBinaryMessage(bytes)
           r == updateParameter(parameters, message.parameterId, message.value)
       IN  CASE message.thrown ->
                  UNCHANGED <<parameters, sent, update, emitted>>
             [] ~message.thrown /\ message.type = "data_stream" ->
                  /\ emitted' = Emit(emitted, "DATA_RECEIVED", 0)
                  /\ UNCHANGED <<parameters, sent, update>>
             [] ~message.thrown /\ message.type = "parameter_update" ->
                  /\ parameters' = r.parameters
                  /\ sent' = sent + r.sends
                  /\ update' = UpdateCall(message.parameterId,
                                          IF r.thrown THEN "rejected" ELSE "resolved")
                  /\ emitted' = Emit(emitted, "PARAMETER_CHANGED", 0)
  /\ UNCHANGED <<supported, connections, serialPorts, serialWriters, serialReaders,
                 readLoopActive, textResponseBuffer, connect, closing, loop,
                 cancelled, wire, received, handed, nextId, attempts>>
  /\ UNCHANGED notDevice

(***************************************************************************)
(* The service in its specifications                                       *)
(***************************************************************************)
\* no service is in use
NoDevice ==
  /\ supported = TRUE /\ connections = << >> /\ serialPorts = {} /\ serialWriters = {}
  /\ serialReaders = {} /\ readLoopActive = << >> /\ textResponseBuffer = << >>
  /\ parameters = << >> /\ emitted = << >> /\ connect = NoConnectCall
  /\ closing = << >> /\ loop = << >> /\ cancelled = {} /\ wire = << >>
  /\ received = << >> /\ handed = << >> /\ sent = 0 /\ nextId = 1 /\ attempts = 0
  /\ inputs = 0 /\ update = UpdateCall("", "none")

\* no codec call is made
NoCodec ==
  /\ datum = << >> /\ data = << >> /\ origin = "none"
  /\ edits = 0 /\ encodes = 0 /\ res = NoResult

\* what a device sends once it is connected: 'k' and a newline
ConnectText == <<107, 10>>

\* a new service, in a browser with or without the Web Serial API
InitDevice ==
  /\ NoCodec /\ NoSites
  /\ supported \in BOOLEAN
  /\ connections = << >> /\ serialPorts = {} /\ serialWriters = {} /\ serialReaders = {}
  /\ readLoopActive = << >> /\ textResponseBuffer = << >> /\ parameters = << >>
  /\ emitted = NoEvents(ConnectionIds) /\ connect = NoConnectCall
  /\ closing = [id \in ConnectionIds |-> "none"]
  /\ loop = [id \in ConnectionIds |-> "none"]
  /\ cancelled = {}
  /\ wire = [id \in ConnectionIds |-> ConnectText]
  /\ received = [id \in ConnectionIds |-> << >>]
  /\ handed = [id \in ConnectionIds |-> << >>]
  /\ sent = 0 /\ nextId = 1 /\ attempts = 0
  /\ inputs = 0 /\ update = UpdateCall("", "none")

NextDevice ==
  \/ ConnectSerial \/ ConnectRequestPort \/ ConnectOpen \/ ConnectSetup \/ ConnectWrite
  \/ \E id \in DOMAIN loop : ReadChunk(id)
  \/ \E id \in DOMAIN loop : ReadDone(id)
  \/ \E id \in DOMAIN loop : ReadError(id)
  \/ \E id \in DOMAIN loop : DisconnectStart(id)
  \/ \E id \in DOMAIN loop : DisconnectCancelled(id)
  \/ \E id \in DOMAIN loop : DisconnectClosed(id)

SpecDevice == InitDevice /\ [][NextDevice]_vars

\* the service after connectSerial returned for the connections of the set:
\* their read loops wait for the texts of the devices
Connected(ids, texts) ==
  /\ NoCodec /\ NoSites
  /\ supported = TRUE
  /\ connections = [id \in ids |-> [isConnected |-> TRUE]]
  /\ serialPorts = ids /\ serialWriters = ids /\ serialReaders = ids
  /\ readLoopActive = [id \in ids |-> TRUE]
  /\ textResponseBuffer = << >>
  /\ parameters = DefaultParameters
  /\ emitted = [e \in EventTypes \X ({0} \cup ids) |->
                  IF e[1] = "DEVICE_CONNECTED" /\ e[2] \in ids THEN 1 ELSE 0]
  /\ connect = ConnectCall("resolved", Cardinality(ids), FALSE, TRUE)
  /\ closing = [id \in ids |-> "none"]
  /\ loop = [id \in ids |-> "reading"]
  /\ cancelled = {}
  /\ wire = texts
  /\ received = [id \in ids |-> << >>]
  /\ handed = [id \in ids |-> << >>]
  /\ sent = 3 * Cardinality(ids) /\ nextId = Cardinality(ids) + 1
  /\ attempts = Cardinality(ids)
  /\ inputs = 0 /\ update = UpdateCall("", "none")

\* the texts of two devices: ' a\r\n\nb\n' and 'cd\ne'
FramingIds == {1, 2}
FramingTexts == << <<32, 97, 13, 10, 10, 98, 10>>, <<99, 100, 10, 101>> >>

InitFraming == Connected(FramingIds, [id \in FramingIds |-> FramingTexts[id]])

\* the devices send their texts and the application disconnects them
NextFraming ==
  \/ \E id \in DOMAIN loop : ReadChunk(id)
  \/ \E id \in DOMAIN loop : ReadDone(id)
  \/ \E id \in DOMAIN loop : DisconnectStart(id)
  \/ \E id \in DOMAIN loop : DisconnectCancelled(id)
  \/ \E id \in DOMAIN loop : DisconnectClosed(id)

SpecFraming == InitFraming /\ [][NextFraming]_vars

\* the answers of a device: 'osc-gain 0.5000\n', 'osc-gain 2\n',
\* 'blur-decay .\nosc-gain 1.5.2 \n', 'volume 3\r\n'
ParamTexts ==
  { <<111, 115, 99, 45, 103, 97, 105, 110, 32, 48, 46, 53, 48, 48, 48, 10>>,
    <<111, 115, 99, 45, 103, 97, 105, 110, 32, 50, 10>>,
    <<98, 108, 117, 114, 45, 100, 101, 99, 97, 121, 32, 46, 10,
      111, 115, 99, 45, 103, 97, 105, 110, 32, 49, 46, 53, 46, 50, 32, 10>>,
    <<118, 111, 108, 117, 109, 101, 32, 51, 13, 10>> }

InitParams == \E text \in ParamTexts : Connected({1}, [id \in {1} |-> text])

NextParams ==
  \/ UpdateParameter
  \/ HandleIncomingData
  \/ \E id \in DOMAIN loop : ReadChunk(id)

SpecParams == InitParams /\ [][NextParams]_vars

(***************************************************************************)
(* Specifications                                                          *)
(***************************************************************************)
\* export and re-import of every dataset
Init ==
  /\ datum \in Datasets
  /\ data = << >>
  /\ origin = "none"
  /\ edits = 0
  /\ encodes = 0
  /\ res = NoResult
  /\ NoSites /\ NoDevice

Next == DatumToBinary \/ BinaryToDatum \/ ValidateFile \/ GetFileInfo

Spec == Init /\ [][Next]_vars

\* export of objects that are not shaped as a dataset should be
InitShape ==
  /\ datum \in ShapedDatasets
  /\ data = << >>
  /\ origin = "none"
  /\ edits = 0
  /\ encodes = 0
  /\ res = NoResult
  /\ NoSites /\ NoDevice

SpecShape == InitShape /\ [][Next]_vars

\* import of files: exports that were changed on the way
InitFile ==
  /\ datum = Datum(TEST_NAME, 1, 1, 1, 0)
  /\ data \in SampleFiles
  /\ origin = "file"
  /\ edits = 0
  /\ encodes = 0
  /\ res = NoResult
  /\ NoSites /\ NoDevice

\* the call sites start with one dataset, of a frame with 18 bands, and one
\* file (an export, or the first 100 bytes of one)
SiteDatasets == {Datum(TEST_NAME, 1, 1, 2, 0)}
SiteFiles ==
  {datumToBinary(Datum(TEST_NAME, 1, 1, 1, 1)),
   SubSeq(datumToBinary(Datum(TEST_NAME, 1, 1, 1, 1)), 1, 100)}

InitSites ==
  /\ NoCodec /\ NoDevice
  /\ store \in {<<d>> : d \in SiteDatasets}
  /\ heap \in {<<f>> : f \in SiteFiles}
  /\ held = [s \in CallSites |-> NoCall]
  /\ last = [site |-> "none", op |-> "none", arg |-> 0]
  /\ touched = {}
  /\ calls = 0
  /\ changes = 0
  /\ now = 0

NextSites ==
  \/ \E s \in CallSites : \E k \in DOMAIN store : SiteDatumToBinary(s, k)
  \/ \E s \in CallSites : \E b \in DOMAIN heap : SiteBinaryToDatum(s, b)
  \/ \E s \in CallSites : \E b \in DOMAIN heap : SiteValidateFile(s, b)
  \/ \E s \in CallSites : \E b \in DOMAIN heap : SiteGetFileInfo(s, b)
  \/ \E b \in DOMAIN heap : ChangeBuffer(b)
  \/ \E k \in DOMAIN store : ChangeDataset(k)

SpecSites == InitSites /\ [][NextSites]_vars

NextFile ==
  \/ BinaryToDatum \/ ValidateFile \/ GetFileInfo
  \/ FileSetUint32 \/ FileSetByte \/ FileTruncate \/ FilePad

SpecFile == InitFile /\ [][NextFile]_vars

(***************************************************************************)
(* Properties.  What a property expects is written from the file layout    *)
(* and the raw bytes, not through the codec's own header record.           *)
(***************************************************************************)
\* Math.fround(x): the double that a float32 slot holding x gives back
Fround(x) == getFloat32(setFloat32(x), 0)

\* the last call decoded the untouched output of datumToBinary(datum)
RoundTripped == res.op = "binaryToDatum" /\ origin = "encoder"

AllFramesFull(d) == \A f \in 1..Len(d.frames) : Len(d.frames[f].bands) = 20

\* frame by frame and band by band, out holds the float32 values of d's bands,
\* a missing band counting as 0.0
SameBands(d, out) ==
  \A f \in 1..Len(d.frames) : \A b \in 1..20 :
    out.frames[f].bands[b] =
      Fround(IF b <= Len(d.frames[f].bands) THEN d.frames[f].bands[b] ELSE Zero(0))

\* the text that is written for d's name: the name, or 'DROP Export' for the
\* empty name, cut to 19 code units
WrittenName(d) == substring(IF d.name = << >> THEN DEFAULT_NAME ELSE d.name, 19)

WellFormed(str) ==
  \A i \in 1..Len(str) :
    /\ IsHighSurrogate(str[i]) => (i < Len(str) /\ IsLowSurrogate(str[i + 1]))
    /\ IsLowSurrogate(str[i]) => (i > 1 /\ IsHighSurrogate(str[i - 1]))

\* the text survives the 20-byte field: at most 20 UTF-8 bytes, well formed,
\* no leading byte order mark, no trailing NUL
NameFits(str) ==
  /\ Len(TextEncode(str, 1)) <= 20
  /\ WellFormed(str)
  /\ str # << >> => (str[1] # 65279 /\ str[Len(str)] # 0)

\* what a reader gets from the first 20 UTF-8 bytes of the text
NameRead(str) ==
  LET bytes == TextEncode(str, 1)
  IN  StripTrailingNul(TextDecode(SubSeq(bytes, 1, IF Len(bytes) < 20 THEN Len(bytes) ELSE 20)))

\* C1 as stated: for every dataset with 20 bands per frame and frames.length =
\* frameCount, decoding the encoding succeeds and returns the same frameCount,
\* the name cut to 19 characters and the same float32 band values.
C1_RoundTripAsStated ==
  (RoundTripped /\ AllFramesFull(datum) /\ Len(datum.frames) = datum.frameCount)
    => /\ res.ok
       /\ res.value.frameCount = datum.frameCount
       /\ res.value.name = substring(datum.name, 19)
       /\ Len(res.value.frames) = datum.frameCount
       /\ SameBands(datum, res.value)

\* C1 amended: for every dataset with 20 bands per frame and frames.length =
\* frameCount >= 1, decoding the encoding succeeds and returns the same
\* frameCount and the same float32 band values; the name returned is what a
\* UTF-8 reader gets from the first 20 bytes of the written name (the name, or
\* 'DROP Export' for the empty name, cut to 19 code units), without trailing
\* NULs, which is the written name itself whenever that fits the field.
C1_RoundTrip ==
  (RoundTripped /\ AllFramesFull(datum) /\ Len(datum.frames) = datum.frameCount
     /\ datum.frameCount >= 1)
    => /\ res.ok
       /\ res.value.frameCount = datum.frameCount
       /\ Len(res.value.frames) = datum.frameCount
       /\ SameBands(datum, res.value)
       /\ res.value.name = NameRead(WrittenName(datum))
       /\ NameFits(WrittenName(datum)) => res.value.name = WrittenName(datum)

\* a dataset with a name of more than 19 code units went through the round trip
C1_Witness ==
  /\ RoundTripped /\ AllFramesFull(datum) /\ Len(datum.frames) = datum.frameCount
  /\ datum.frameCount >= 1 /\ Len(datum.name) > 19
  /\ NameFits(WrittenName(datum)) /\ res.ok

(***************************************************************************)
(* The header of the current buffer, read off the layout table             *)
(***************************************************************************)
Decoded == res.op = "binaryToDatum"

\* the little-endian bytes of a uint32
LittleEndian(n) ==
  <<n % 256, (n \div 256) % 256, (n \div 65536) % 256, (n \div 2^24) % 256>>

\* a < b for two uint32 given as little-endian bytes
LittleEndianLess(a, b) ==
  \E k \in 1..4 : a[k] < b[k] /\ \A j \in (k + 1)..4 : a[j] = b[j]

HeaderComplete == Len(data) >= 203
MagicOk == Len(data) >= 4 /\ Slice(data, 0, 4) = <<68, 65, 84, 77>>
VersionOk == Slice(data, 4, 4) = <<1, 0, 0, 0>>
HeaderSizeOk == Slice(data, 8, 4) = <<203, 0, 0, 0>>
FramesPositive == Slice(data, 32, 4) # <<0, 0, 0, 0>>
RangeOk == ~LittleEndianLess(Slice(data, 40, 4), Slice(data, 36, 4))
\* the buffer declares n frames
Declares(n) == Slice(data, 32, 4) = LittleEndian(n)
SizeOk == \E n \in 0..Len(data) : Declares(n) /\ Len(data) = 203 + n * 80

\* C2: given a complete header that passes the magic, version, headerSize,
\* frame-count and frame-range checks and declares n frames, binaryToDatum
\* succeeds iff the buffer length is exactly 203 + n*80; otherwise it fails
\* with the invalid-file-size error and returns no dataset.
C2_SizeConsistency ==
  (Decoded /\ HeaderComplete /\ MagicOk /\ VersionOk /\ HeaderSizeOk
     /\ FramesPositive /\ RangeOk)
    => /\ res.ok <=> SizeOk
       /\ ~SizeOk => (res.error = ERR_FILESIZE /\ res.value = << >>)

\* a validly-headered buffer one byte short of its payload was rejected
C2_Witness ==
  /\ Decoded /\ HeaderComplete /\ MagicOk /\ VersionOk /\ HeaderSizeOk
  /\ FramesPositive /\ RangeOk
  /\ \E n \in 1..MaxFrames : Declares(n) /\ Len(data) = 203 + n * 80 - 1
  /\ res.error = ERR_FILESIZE

\* the six checks in the order of the specification, with their errors
CheckOk(k) ==
  CASE k = 1 -> MagicOk
    [] k = 2 -> VersionOk
    [] k = 3 -> HeaderSizeOk
    [] k = 4 -> FramesPositive
    [] k = 5 -> RangeOk
    [] k = 6 -> SizeOk
CheckError == <<ERR_MAGIC, ERR_VERSION, ERR_HEADERSIZE, ERR_FRAMECOUNT,
                ERR_FRAMERANGE, ERR_FILESIZE>>

\* C3: for a buffer of at least 203 bytes, binaryToDatum reports the error of
\* the first violated check in the order magic, version, headerSize, frame
\* count, frame range, total size; a later check's error is never reported
\* while an earlier check is violated.
C3_ValidationOrder ==
  (Decoded /\ HeaderComplete)
    => \A k \in 1..6 :
         /\ (~CheckOk(k) /\ \A j \in 1..(k - 1) : CheckOk(j)) => res.error = CheckError[k]
         /\ res.error = CheckError[k] => \A j \in 1..(k - 1) : CheckOk(j)

\* a buffer that violates two checks, the first of them not the magic check,
\* was rejected with the error of the first
C3_Witness ==
  /\ Decoded /\ HeaderComplete /\ MagicOk
  /\ Cardinality({k \in 1..6 : ~CheckOk(k)}) >= 2
  /\ \E k \in 2..5 : res.error = CheckError[k]

\* C4 as stated: every buffer, of any length, whose first four bytes are not
\* 0x44 0x41 0x54 0x4D fails with the magic-number-mismatch error.
C4_MagicRejection ==
  (Decoded /\ ~MagicOk) => (~res.ok /\ res.error = ERR_MAGIC)

\* C5 as stated: binaryToDatum returns a dataset or fails with one of the six
\* codec errors; no other failure reaches the caller.
C5_ClosedErrors ==
  Decoded => (res.ok \/ \E k \in 1..6 : res.error = CheckError[k])

\* C6: a buffer with a complete header and correct magic whose version field
\* is not 1 fails with the unsupported-version error, whatever the other
\* fields, the payload and the length are.
C6_VersionRejection ==
  (Decoded /\ HeaderComplete /\ MagicOk /\ ~VersionOk)
    => (~res.ok /\ res.error = ERR_VERSION)

\* a buffer of version 2 that also has the wrong size was rejected for its version
C6_Witness ==
  /\ Decoded /\ HeaderComplete /\ MagicOk /\ ~SizeOk
  /\ Slice(data, 4, 4) = <<2, 0, 0, 0>>
  /\ res.error = ERR_VERSION

\* C7: a buffer with valid magic, version and headerSize whose frames field is
\* 0 fails with the invalid-frame-count error, also at exactly 203 bytes; so
\* binaryToDatum never returns a dataset with frameCount 0 or no frames.
C7_FrameCountRejection ==
  Decoded
    => /\ (HeaderComplete /\ MagicOk /\ VersionOk /\ HeaderSizeOk /\ ~FramesPositive)
            => (~res.ok /\ res.error = ERR_FRAMECOUNT)
       /\ res.ok => (res.value.frameCount >= 1 /\ Len(res.value.frames) >= 1)

\* a 203-byte buffer, size-consistent with its zero frames, was rejected
C7_Witness ==
  /\ Decoded /\ Len(data) = 203 /\ MagicOk /\ VersionOk /\ HeaderSizeOk
  /\ ~FramesPositive /\ RangeOk /\ SizeOk
  /\ res.error = ERR_FRAMECOUNT

Encoded == res.op = "datumToBinary"

\* C8 as stated: datumToBinary returns exactly 203 + frameCount*80 bytes, also
\* when frames.length differs from frameCount.
C8_SizeFromFrameCount ==
  Encoded => Len(res.value) = 203 + datum.frameCount * 80

\* C8 amended: datumToBinary returns exactly 203 + frames.length*80 bytes; the
\* output is sized from the frames list, frameCount only goes into the header's
\* frames field, and the size is 203 + frameCount*80 exactly when
\* frames.length = frameCount.
C8_OutputSize ==
  Encoded
    => /\ Len(res.value) = 203 + Len(datum.frames) * 80
       /\ Slice(res.value, 32, 4) = LittleEndian(datum.frameCount)
       /\ Len(res.value) = 203 + datum.frameCount * 80
            <=> Len(datum.frames) = datum.frameCount

\* a dataset whose non-empty frames list disagrees with frameCount was encoded
C8_Witness ==
  /\ Encoded /\ Len(datum.frames) >= 1 /\ datum.frameCount >= 1
  /\ Len(datum.frames) # datum.frameCount

C10_DecodePostcondition ==
  (Decoded /\ res.ok)
    => /\ res.value.bandCount = 20
       /\ Declares(res.value.frameCount)
       /\ Len(res.value.frames) = res.value.frameCount
       /\ \A f \in 1..Len(res.value.frames) :
            /\ Len(res.value.frames[f].bands) = 20
            /\ res.value.frames[f].timestamp = f - 1
            /\ \A b \in 1..20 :
                 res.value.frames[f].bands[b]
                   = getFloat32(data, 203 + 4 * (20 * (f - 1) + (b - 1)))

\* a file whose payload was changed on the way was decoded
C10_Witness ==
  /\ Decoded /\ res.ok /\ edits >= 1 /\ res.value.frameCount = MaxFrames
  /\ data \notin SampleFiles

(***************************************************************************)
(* The buffer datumToBinary returns, read off the layout table             *)
(***************************************************************************)
\* the four bytes of slot b (from 1) of frame f (from 1) of an output
SlotBytes(out, f, b) == Slice(out, 203 + 80 * (f - 1) + 4 * (b - 1), 4)

\* C11: for every frame, datumToBinary writes exactly 20 float32 slots; a frame
\* with k < 20 bands has its slots k..19 written as 0.0, a frame with more than
\* 20 bands has only its first 20 written, the bands present keep their order,
\* and no error is raised.
C11_FramePadding ==
  Encoded
    => /\ res.ok
       /\ Len(res.value) = 203 + 80 * Len(datum.frames)
       /\ \A f \in 1..Len(datum.frames) : \A b \in 1..20 :
            SlotBytes(res.value, f, b) =
              IF b <= Len(datum.frames[f].bands)
                THEN setFloat32(datum.frames[f].bands[b])
                ELSE <<0, 0, 0, 0>>

\* a dataset with an 18-band frame and a 25-band frame was encoded
C11_Witness ==
  /\ Encoded /\ res.ok
  /\ \E f \in 1..Len(datum.frames) : Len(datum.frames[f].bands) = 18
  /\ \E f \in 1..Len(datum.frames) :
       /\ Len(datum.frames[f].bands) = 25
       /\ setFloat32(datum.frames[f].bands[21]) # <<0, 0, 0, 0>>

\* C12 as stated: for every dataset whose name is longer than 19 characters,
\* datumToBinary encodes only the first 19 characters of the name, and
\* binaryToDatum of that output returns exactly that 19-character string,
\* with no trailing NUL.
C12_NameTruncation ==
  (RoundTripped /\ Len(datum.name) > 19 /\ Len(datum.frames) = datum.frameCount
     /\ datum.frameCount >= 1)
    => /\ res.ok
       /\ res.value.name = substring(datum.name, 19)
       /\ Len(res.value.name) = 19
       /\ res.value.name[19] # 0

\* C13 as stated: in every output of datumToBinary, for every name, the name
\* field at bytes 12..31 holds at most 19 name bytes followed by NUL padding,
\* so its last byte (offset 31) is 0.
C13_NameTerminator ==
  (Encoded /\ res.ok)
    => /\ res.value[31 + 1] = 0
       /\ \E k \in 0..19 :
            /\ k = Len(TextEncode(WrittenName(datum), 1))
            /\ Slice(res.value, 12, k) = TextEncode(WrittenName(datum), 1)
            /\ Slice(res.value, 12 + k, 20 - k) = Fill(0, 20 - k)

\* the layout table of the format: the fields in byte order with their sizes
LayoutTable ==
  << <<"magic", 4>>, <<"version", 4>>, <<"headerSize", 4>>, <<"name", 20>>,
     <<"frames", 4>>, <<"startFrame", 4>>, <<"endFrame", 4>>, <<"baseHz", 8>>,
     <<"phaseMultipliers", 32>>, <<"offsets", 32>>, <<"startPoint", 8>>,
     <<"endPoint", 8>>, <<"warpAmount", 4>>, <<"warpType", 1>>,
     <<"selectedLUT", 1>>, <<"reserved", 65>> >>

\* the cumulative size of the fields before field k
RECURSIVE FieldOffset(_)
FieldOffset(k) == IF k = 1 THEN 0 ELSE FieldOffset(k - 1) + LayoutTable[k - 1][2]

FieldSize(k) == LayoutTable[k][2]
FieldIndex(name) == CHOOSE k \in 1..Len(LayoutTable) : LayoutTable[k][1] = name
\* the bytes of a field of a buffer, at the offset the table gives
Field(bytes, name) ==
  Slice(bytes, FieldOffset(FieldIndex(name)), FieldSize(FieldIndex(name)))

\* the first 20 UTF-8 bytes of the written name, padded with NUL to 20 bytes
NameBytes(d) ==
  LET bytes == TextEncode(WrittenName(d), 1)
  IN  [i \in 1..20 |-> IF i <= Len(bytes) THEN bytes[i] ELSE 0]

DOUBLE_440 == <<0, 0, 0, 0, 0, 128, 123, 64>>     \* 440.0 as a little-endian float64
DOUBLE_1 == <<0, 0, 0, 0, 0, 0, 240, 63>>         \* 1.0
DOUBLE_0 == <<0, 0, 0, 0, 0, 0, 0, 0>>            \* 0.0

\* C14: in every output of datumToBinary bytes 0..3 are 44 41 54 4D, bytes 4..7
\* the little-endian 1, bytes 8..11 the little-endian 203, the name is at 12..31
\* and the frame count at 32..35; every header field starts at the cumulative
\* offset of the layout table and the fields tile bytes 0..202; band b of frame
\* f is at 203 + 80*f + 4*b; readHeader reads each field at the offset where
\* writeHeader writes it.
C14_ByteLayout ==
  (Encoded /\ res.ok)
    => LET out == res.value
           h   == readHeader(out)
       IN  /\ Slice(out, 0, 4) = <<68, 65, 84, 77>>
           /\ Slice(out, 4, 4) = <<1, 0, 0, 0>>
           /\ Slice(out, 8, 4) = <<203, 0, 0, 0>>
           /\ Slice(out, 12, 20) = NameBytes(datum)
           /\ Slice(out, 32, 4) = LittleEndian(datum.frameCount)
           \* the table tiles 0..202 and the named fields are where it puts them
           /\ FieldOffset(Len(LayoutTable)) + FieldSize(Len(LayoutTable)) = 203
           /\ FieldOffset(FieldIndex("name")) = 12
           /\ FieldOffset(FieldIndex("frames")) = 32
           /\ Field(out, "startFrame") = <<0, 0, 0, 0>>
           /\ datum.frameCount >= 1 => Field(out, "endFrame") = LittleEndian(datum.frameCount - 1)
           /\ Field(out, "baseHz") = DOUBLE_440
           /\ Field(out, "phaseMultipliers") = DOUBLE_1 \o DOUBLE_1 \o DOUBLE_1 \o DOUBLE_1
           /\ Field(out, "endPoint") = DOUBLE_1
           \* the payload
           /\ \A f \in 1..Len(datum.frames) : \A b \in 1..20 :
                b <= Len(datum.frames[f].bands)
                  => Slice(out, 203 + 80 * (f - 1) + 4 * (b - 1), 4)
                       = setFloat32(datum.frames[f].bands[b])
           \* the reads
           /\ \A k \in 1..Len(LayoutTable) : HeaderReads[k] = <<FieldOffset(k), FieldSize(k)>>
           /\ h.magic = Field(out, "magic")
           /\ h.version = ToUint32(1)
           /\ h.headerSize = ToUint32(203)
           /\ h.name = StripTrailingNul(TextDecode(Field(out, "name")))
           /\ h.frames = ToUint32(datum.frameCount)
           /\ h.startFrame = ToUint32(0)
           /\ h.endFrame = ToUint32(datum.frameCount - 1)
           /\ h.baseHz = DOUBLE_440
           /\ h.phaseMultipliers = Field(out, "phaseMultipliers")
           /\ h.offsets = Field(out, "offsets")
           /\ h.startPoint = DOUBLE_0
           /\ h.endPoint = DOUBLE_1
           /\ h.warpAmount = Zero(0)
           /\ h.warpType = 0 /\ h.selectedLUT = 0
           /\ h.reserved = Field(out, "reserved")

\* a dataset of MaxFrames frames with a name of its own was encoded
C14_Witness ==
  /\ Encoded /\ res.ok
  /\ Len(datum.frames) = MaxFrames /\ datum.frameCount = MaxFrames
  /\ datum.name = TEST_NAME

\* the bands of a dataset, frame by frame
Bands(d) == [f \in 1..Len(d.frames) |-> d.frames[f].bands]

\* two datasets agree on name, frameCount and band values
SameContent(d1, d2) ==
  d1.name = d2.name /\ d1.frameCount = d2.frameCount /\ Bands(d1) = Bands(d2)

\* the header fields after the frame count, with the defaults of the table
DefaultFields(endFrame) ==
  <<0, 0, 0, 0>> \o endFrame
    \o DOUBLE_440
    \o DOUBLE_1 \o DOUBLE_1 \o DOUBLE_1 \o DOUBLE_1
    \o DOUBLE_0 \o DOUBLE_0 \o DOUBLE_0 \o DOUBLE_0
    \o DOUBLE_0
    \o DOUBLE_1
    \o <<0, 0, 0, 0>>
    \o <<0>>
    \o <<0>>
    \o Fill(0, 65)

\* C15 as stated: the header depends only on name and frameCount; on every
\* encode startFrame = 0, endFrame = frameCount - 1 (hence endFrame >=
\* startFrame), baseHz = 440.0, phaseMultipliers = [1,1,1,1], offsets =
\* [0,0,0,0], startPoint = 0.0, endPoint = 1.0, warpAmount = 0.0, warpType = 0,
\* selectedLUT = 0 and the 65 reserved bytes are 0; datasets that agree on
\* name, frameCount and band values encode to identical bytes.
C15_DefaultsAsStated ==
  (Encoded /\ res.ok)
    => /\ datum.frameCount - 1 >= 0
       /\ Slice(res.value, 0, 203)
            = <<68, 65, 84, 77>> \o <<1, 0, 0, 0>> \o <<203, 0, 0, 0>>
                \o NameBytes(datum) \o LittleEndian(datum.frameCount)
                \o DefaultFields(LittleEndian(datum.frameCount - 1))
       /\ \A d \in Datasets : SameContent(d, datum) => datumToBinary(d) = res.value

\* C15 amended: the header depends only on name and frameCount; on every
\* encode startFrame = 0, endFrame = (frameCount - 1) mod 2^32, which is
\* frameCount - 1 >= startFrame for frameCount >= 1 and 4294967295 for
\* frameCount = 0, and the other fields and the reserved bytes hold their
\* defaults; datasets that agree on name, frameCount and band values encode to
\* identical bytes.
C15_HeaderDefaults ==
  (Encoded /\ res.ok)
    => /\ Slice(res.value, 0, 203)
            = <<68, 65, 84, 77>> \o <<1, 0, 0, 0>> \o <<203, 0, 0, 0>>
                \o NameBytes(datum) \o LittleEndian(datum.frameCount)
                \o DefaultFields(IF datum.frameCount >= 1
                                   THEN LittleEndian(datum.frameCount - 1)
                                   ELSE <<255, 255, 255, 255>>)
       /\ \A d \in Datasets : SameContent(d, datum) => datumToBinary(d) = res.value

\* a dataset was encoded that has a twin with another sample rate, band count
\* and other timestamps
C15_Witness ==
  /\ Encoded /\ res.ok /\ datum.frameCount >= 1
  /\ \E d \in Datasets :
       /\ SameContent(d, datum)
       /\ d.sampleRate # datum.sampleRate
       /\ d.frames[1].timestamp # datum.frames[1].timestamp

Validated == res.op = "validateFile"
Peeked == res.op = "getFileInfo"

\* the buffer has a complete header and passes the six checks
Acceptable == HeaderComplete /\ \A k \in 1..6 : CheckOk(k)

\* C17: for every buffer, validateFile returns true if and only if
\* binaryToDatum on the same buffer succeeds; it performs the full header read
\* and all six checks, not only a look at the magic number.
C17_ValidateAgreesWithDecode ==
  Validated
    => /\ res.ok
       /\ res.value <=> binaryToDatum(data).ok
       /\ res.value <=> Acceptable

\* validateFile said no to a changed file whose magic, version, headerSize,
\* frame count and frame range are valid and whose size is not
C17_Witness ==
  /\ Validated /\ res.ok /\ ~res.value /\ edits >= 1
  /\ HeaderComplete /\ \A k \in 1..5 : CheckOk(k)
  /\ ~SizeOk

\* a value returned by getFileInfo is null
IsNull(v) == DOMAIN v = {"null"}
\* a value returned by getFileInfo is an info record
IsInfo(v) == DOMAIN v = {"name", "frames", "size"}

\* C18: for every buffer of any length and content, validateFile returns a
\* boolean and getFileInfo returns an info record or null; neither throws, an
\* error raised while reading or validating the header becomes false / null.
C18_HelpersNeverThrow ==
  /\ Validated
       => /\ res.ok /\ res.value \in BOOLEAN
          /\ ~HeaderComplete => res.value = FALSE
  /\ Peeked
       => /\ res.ok /\ (IsNull(res.value) \/ IsInfo(res.value))
          /\ ~HeaderComplete => IsNull(res.value)

\* getFileInfo returned null for a 10-byte buffer
C18_Witness ==
  /\ Peeked /\ res.ok /\ Len(data) = 10 /\ IsNull(res.value)

\* C19 as stated: for every buffer whose header cannot be parsed as a datum
\* header (truncated header, wrong magic, unsupported version, wrong
\* headerSize) getFileInfo returns null; only otherwise does it return name,
\* frames and size taken from the header and the buffer length.
C19_InfoOrNull ==
  (Peeked /\ res.ok)
    => IF HeaderComplete /\ MagicOk /\ VersionOk /\ HeaderSizeOk
         THEN /\ IsInfo(res.value)
              /\ res.value.name = StripTrailingNul(TextDecode(Slice(data, 12, 20)))
              /\ Declares(U32Value(res.value.frames))
              /\ res.value.size = Len(data)
         ELSE IsNull(res.value)

\* C20: for every structurally valid dataset, also with frames.length #
\* frameCount, frameCount 0, no frames, or frames with fewer or more than 20
\* bands, datumToBinary returns a byte buffer and never raises.
C20_EncodeNeverFails ==
  Encoded
    => /\ res.ok /\ res.error = NO_ERROR
       /\ Len(res.value) >= 203
       /\ \A i \in 1..Len(res.value) : res.value[i] \in Byte

\* a dataset with frameCount 0, a 25-band frame and a frame without bands was
\* encoded
C20_Witness ==
  /\ Encoded /\ res.ok
  /\ datum.frameCount = 0 /\ Len(datum.frames) = 2
  /\ \E f \in 1..Len(datum.frames) : Len(datum.frames[f].bands) = 25
  /\ \E f \in 1..Len(datum.frames) : Len(datum.frames[f].bands) = 0

(***************************************************************************)
(* Objects that are not shaped as a dataset should be                      *)
(***************************************************************************)
HasBands(frame) == "bands" \in DOMAIN frame
\* slot b of the frame has no number to hold: the frame has no bands list, the
\* list is too short, or its entry is undefined
NoBand(frame, b) ==
  ~HasBands(frame) \/ b > Len(frame.bands) \/ frame.bands[b] = undefined

\* C21 as stated: when a dataset field is undefined (missing frameCount, a
\* frame without a bands list, an undefined entry inside bands), datumToBinary
\* does not throw and writes 0 in the corresponding header field or band slot.
C21_UndefinedAsZero ==
  Encoded
    => /\ res.ok
       /\ "frameCount" \notin DOMAIN datum => Slice(res.value, 32, 4) = <<0, 0, 0, 0>>
       /\ \A f \in 1..Len(datum.frames) : \A b \in 1..20 :
            NoBand(datum.frames[f], b) => SlotBytes(res.value, f, b) = <<0, 0, 0, 0>>

\* C21 amended: with a missing frameCount datumToBinary does not throw and
\* writes 0 in the frames and endFrame fields, with a missing name it writes
\* 'DROP Export'; an undefined entry inside bands is written as NaN (00 00 C0
\* 7F), not as 0; a frame without a bands list makes datumToBinary throw a
\* TypeError and return nothing.
C21_BadlyShapedInput ==
  Encoded
    => /\ res.ok <=> \A f \in 1..Len(datum.frames) : HasBands(datum.frames[f])
       /\ ~res.ok => res.error = TYPE_ERROR
       /\ res.ok =>
            /\ Len(res.value) = 203 + 80 * Len(datum.frames)
            /\ "frameCount" \notin DOMAIN datum
                 => (Slice(res.value, 32, 4) = <<0, 0, 0, 0>>
                       /\ Slice(res.value, 40, 4) = <<0, 0, 0, 0>>)
            /\ "name" \notin DOMAIN datum
                 => Slice(res.value, 12, 20)
                      = DEFAULT_NAME \o Fill(0, 20 - Len(DEFAULT_NAME))
            /\ \A f \in 1..Len(datum.frames) : \A b \in 1..20 :
                 SlotBytes(res.value, f, b) =
                   IF b > Len(datum.frames[f].bands) THEN <<0, 0, 0, 0>>
                   ELSE IF datum.frames[f].bands[b] = undefined THEN <<0, 0, 192, 127>>
                   ELSE setFloat32(datum.frames[f].bands[b])

\* an object without frameCount and with an undefined band entry was encoded
C21_Witness ==
  /\ Encoded /\ res.ok /\ "frameCount" \notin DOMAIN datum
  /\ \E f \in 1..Len(datum.frames) : \E b \in 1..Len(datum.frames[f].bands) :
       datum.frames[f].bands[b] = undefined

(***************************************************************************)
(* Several call sites                                                      *)
(***************************************************************************)
\* the step is a codec call
IsCall == calls' = calls + 1
IsRead == IsCall /\ last'.op \in {"binaryToDatum", "validateFile", "getFileInfo"}
IsEncode == IsCall /\ last'.op = "datumToBinary"

CallAlone(op, arg) ==
  CASE op = "datumToBinary" ->
         IF datumToBinaryThrown(store[arg]) # NO_ERROR
           THEN Failure(datumToBinaryThrown(store[arg]))
           ELSE Success(datumToBinary(store[arg]))
    [] op = "binaryToDatum" -> binaryToDatumAt(heap[arg], now)
    [] op = "validateFile" -> validateFile(heap[arg])
    [] op = "getFileInfo" -> getFileInfo(heap[arg])

\* the object the call site got back is as it was returned
AsReturned(s) ==
  (held[s].op # "none" /\ held[s].ok /\ held[s].ref # NoRef /\ held[s].ref \notin touched)
    => Content(held[s].ref) = held[s].value

Reencoded(d) == IF datumToBinaryThrown(d) # NO_ERROR THEN << >> ELSE datumToBinary(d)

\* C24 as stated: for every dataset d with frames.length = frameCount >= 1,
\* datumToBinary(binaryToDatum(datumToBinary(d))) is byte-identical to
\* datumToBinary(d).
C24_FixedPoint ==
  (RoundTripped /\ Len(datum.frames) = datum.frameCount /\ datum.frameCount >= 1)
    => /\ res.ok
       /\ Reencoded(res.value) = data

\* the same for the datasets whose written name survives the name field
C24_FixedPointOfFittingNames ==
  (RoundTripped /\ Len(datum.frames) = datum.frameCount /\ datum.frameCount >= 1
     /\ NameFits(WrittenName(datum)))
    => /\ res.ok
       /\ Reencoded(res.value) = data

(***************************************************************************)
(* The summary and the import of the same buffer                           *)
(***************************************************************************)
\* C25: for every buffer that binaryToDatum accepts, getFileInfo returns a
\* record, not null, whose name is the decoded dataset's name, whose frames is
\* the decoded frameCount and whose size is the buffer length, which is
\* 203 + frames*80.
C25_InfoAgreesWithDecode ==
  (Peeked /\ binaryToDatum(data).ok)
    => LET decoded == binaryToDatum(data).value
       IN  /\ res.ok /\ IsInfo(res.value)
           /\ res.value.name = decoded.name
           /\ U32Value(res.value.frames) = decoded.frameCount
           /\ res.value.size = Len(data)
           /\ res.value.size = 203 + U32Value(res.value.frames) * 80

\* the summary of an accepted file that was changed on the way
C25_Witness ==
  /\ Peeked /\ binaryToDatum(data).ok /\ edits > 0
  /\ U32Value(res.value.frames) >= 1

(***************************************************************************)
(* The name of a dataset without one                                       *)
(***************************************************************************)
\* C26 as stated: datumToBinary writes the dataset's own name for every
\* non-empty name and 'DROP Export' exactly when the name is empty, so the
\* name field of an encoded file is never all NUL bytes and decoding an
\* encoded file never returns an empty name.
C26_EmptyNameSubstitution ==
  (Encoded /\ res.ok)
    => /\ Field(res.value, "name") = NameBytes(datum)
       /\ (Field(res.value, "name") = NameBytes([name |-> << >>])) <=> (datum.name = << >>)
       /\ Field(res.value, "name") # Fill(0, 20)
       /\ binaryToDatum(res.value).ok => binaryToDatum(res.value).value.name # << >>

(***************************************************************************)
(* DeviceService: the lines of a connection                                *)
(***************************************************************************)
\* C27 as stated: for each serial connection, the lines handed to
\* parseParameterResponse are the newline-terminated lines of the text the
\* connection received, trimmed and without the empty ones, however the text
\* was split into chunks and whatever arrives on, or happens to, another
\* connection.
C27_LineFraming ==
  \A id \in DOMAIN handed : handed[id] = CompleteLines(received[id])

(***************************************************************************)
(* DeviceService: the end of a connection                                  *)
(***************************************************************************)
\* the connection has an entry in one of the Maps of the service
Registered(id) ==
  \/ id \in DOMAIN connections \/ id \in serialPorts \/ id \in serialWriters
  \/ id \in serialReaders \/ id \in DOMAIN readLoopActive

Disconnected(id) == emitted[<<"DEVICE_DISCONNECTED", id>>]

\* C28 as stated: in every interleaving of disconnect(id) with the read loop,
\* a read error before or during the disconnect included, DEVICE_DISCONNECTED
\* is emitted for id once and not again, and once it was emitted id has no
\* entry left in connections, serialPorts, serialWriters, serialReaders and
\* readLoopActive.
C28_DisconnectOnce ==
  \A id \in DOMAIN loop :
    /\ Disconnected(id) <= 1
    /\ Disconnected(id) >= 1 => ~Registered(id)

(***************************************************************************)
(* DeviceService: a connectSerial call that rejects                        *)
(***************************************************************************)
\* C29 as stated: whenever connectSerial rejects, CONNECTION_ERROR was emitted
\* and DEVICE_CONNECTED was not, and the call left no entry in connections,
\* serialPorts, serialWriters, serialReaders and readLoopActive.
C29_FailedConnect ==
  connect.pc = "rejected"
    => /\ connect.errorEmitted
       /\ ~connect.connectedEmitted
       /\ connect.id # 0 => ~Registered(connect.id)

\* the same in a browser with the Web Serial API
C29_FailedConnectWhereSupported ==
  (connect.pc = "rejected" /\ supported)
    => /\ connect.errorEmitted
       /\ ~connect.connectedEmitted
       /\ connect.id # 0 => ~Registered(connect.id)

(***************************************************************************)
(* DeviceService: the values of the parameters                             *)
(***************************************************************************)
InBoundsOfParameter(p) ==
  /\ p.value.k = "number"
  /\ ~LessThan(p.value, p.min)
  /\ ~GreaterThan(p.value, p.max)

\* C30 as stated: after any sequence of updateParameter calls, text responses
\* and binary parameter updates, every cached parameter with min and max holds
\* a number between them; a rejected updateParameter call leaves the cache
\* unchanged and sends nothing.
C30_ParameterBounds ==
  /\ [](\A id \in DOMAIN parameters : InBoundsOfParameter(parameters[id]))
  /\ [][(inputs' = inputs + 1 /\ update'.outcome = "rejected" /\ update' # update)
         => (parameters' = parameters /\ sent' = sent)]_vars

\* the part of C30 about the calls of the application with a number in range
\* or out of range, taken alone
C30_RejectedUpdate ==
  [][(inputs' = inputs + 1 /\ update'.outcome = "rejected" /\ update' # update)
       => (parameters' = parameters /\ sent' = sent)]_vars

====
